---- MODULE Spec2Model ----
(***************************************************************************)
(* A model of the permit gate of the squeeze concurrency limiter:          *)
(* DefaultLimiter (src/src/limiter/mod.rs), its Token                      *)
(* (src/src/limiter/token.rs) and the Fixed and Aimd limit algorithms      *)
(* (src/src/limits/fixed.rs, src/src/limits/aimd.rs).                      *)
(*                                                                         *)
(* Callers are tasks on a multi-threaded executor, so every access to an   *)
(* atomic or to the semaphore is one step and the steps of different       *)
(* callers interleave freely.  The semaphore is tokio's fair semaphore:    *)
(* a FIFO queue of waiters, permits handed to the front of the queue       *)
(* first, acquire_many collecting its permits piecewise.                   *)
(***************************************************************************)
EXTENDS Integers, Sequences, FiniteSets, Bags, TLC

\* ------------------------------------------------------------- bounds
NumCallers  == 2    \* caller tasks sharing one limiter
MaxLimit    == 3    \* the controller's max_limit (and the largest Fixed limit)
MaxTasks    == 2    \* background shrink tasks alive at one time
MaxDuration == 1    \* longest acquire_timeout duration, in clock ticks

MaxLatency  == 3    \* longest sample latency, in microseconds
MaxInFlight == 2    \* largest in_flight a sample handed to a controller carries
MaxCtlLimit == 5    \* a controller above this limit is updated no further
MaxSmoothed == 2    \* samples an ExpSmoothed takes after its warm-up

MaxCalls    == 3    \* update calls made on one Windowed wrapper
MaxNow      == 2    \* how far the clock runs, in microseconds

MaxTotalLimit == 4  \* the largest Fixed limit shared by static partitions
MaxWaiters  == 2    \* waiter-list entries after which callers stop parking
MaxDelay    == 2    \* the longest delay of a RejectionDelay, in ticks

Callers   == 1..NumCallers
TaskIds   == 1..MaxTasks
Durations == 0..MaxDuration

\* ------------------------------------------------- program constants
DEFAULT_MIN_LIMIT == 1
DEFAULT_MAX_LIMIT == 1000

\* Durations of samples are counted in nanoseconds.
MIN_SAMPLE_LATENCY == 1000

\* ExpSmoothed::INITIAL_WARMUP_SAMPLES, Gradient::DEFAULT_LONG_WINDOW_SAMPLES
INITIAL_WARMUP_SAMPLES == 10
DEFAULT_LONG_WINDOW_SAMPLES == 500

\* f64 factors are kept as tenths: 5 is 0.5, 9 is 0.9, 8 is 0.8.
DecreaseFactors == {5}
UtilisationThresholds == {5}

NoOutcome == "None"
Outcomes  == {"Success", "Overload"}

VARIABLES
    algo,        \* the limit algorithm's configuration (immutable after new)
    algo_limit,  \* the limit algorithm's own limit (Aimd.limit / Fixed.0)
    limit,       \* DefaultLimiter.limit
    permits,     \* DefaultLimiter.semaphore: permits available
    waiters,     \* DefaultLimiter.semaphore: FIFO queue of pending acquires
    in_flight,   \* DefaultLimiter.in_flight
    pc,          \* where each caller is in its current operation
    loc,         \* each caller's local variables
    tasks        \* the background tasks spawned by release

gateVars ==
    <<algo, algo_limit, limit, permits, waiters, in_flight, pc, loc, tasks>>

\* A limit algorithm on its own (src/src/limits), built and updated by one
\* owner, outside any limiter.
VARIABLES
    ctl,         \* the controller: its configuration, limit and inner state
    call         \* the last call made on it, with its sample and its result

ctlVars == <<ctl, call>>

\* A Windowed wrapper (src/src/limits/windowed.rs) around the controller ctl,
\* updated by the callers concurrently.
VARIABLES
    win,         \* the wrapper: its configuration, its Window and the Mutex
    upd,         \* each caller's position in Windowed::update and its locals
    now,         \* the clock behind Instant::now(), in nanoseconds
    hist         \* history: calls made, samples of the open window, forwards

winVars == <<win, upd, now, hist>>

\* An aggregator (src/src/aggregation.rs) on its own, sampled and reset by
\* one owner.
VARIABLES
    agg,         \* the aggregator: its kind and its fields
    alog         \* history: samples added since the last reset, last result

aggVars == <<agg, alog>>

\* Static partitions (src/src/limiter/partitioning.rs) over one shared
\* DefaultLimiter with a Fixed limit, used by the callers concurrently.
VARIABLES
    sched,       \* the Scheduler and the shared limiter's semaphore and counter
    pcall,       \* each caller's position in its acquire and its locals
    reuse,       \* the tasks spawned by Scheduler::reuse_permit, by position
    held         \* live tokens the application holds, by partition

partVars == <<sched, pcall, reuse, held>>

\* A RejectionDelay wrapper (src/src/limiter/rejection_delay.rs) around the
\* DefaultLimiter of the gate variables.
VARIABLES
    rd           \* the wrapper: its delay, and each caller's call through it

\* An Aimd controller (src/src/limits/aimd.rs) whose update is called by the
\* callers concurrently.
VARIABLES
    au           \* the controller's atomic limit, each caller's position in
                 \* update, and the samples given so far

\* A run of tokens through a DefaultLimiter over a Gradient controller, as
\* in the controller's test: batches of tokens, acquired together and
\* released one after the other.
VARIABLES
    gr           \* the batch in hand, the tokens still held, the first batch

\* The variables outside the limiter, the controllers and the wrapper.
restVars == <<aggVars, partVars, rd, au, gr>>

vars == <<gateVars, ctlVars, winVars, restVars>>

\* ------------------------------------------------------------ helpers
\* A caller's locals; a local is put back to its NoLoc value after its last
\* use.
NoLoc == [outcome |-> NoOutcome, sample_in_flight |-> 0,
          new_limit |-> 0, old_limit |-> 0, timer |-> 0]

FreeTask == [st |-> "free", need |-> 0]

\* No controller built yet, no call made yet.
NoCtl  == [kind |-> "None"]
NoSample == [latency |-> 0, in_flight |-> 0, outcome |-> NoOutcome]
NoCall == [op |-> "none", sample |-> NoSample, limit_before |-> 0,
           ret |-> 0, panicked |-> FALSE]

\* A step of the limiter touches no controller built outside it.
GateOnly == UNCHANGED <<ctlVars, winVars, restVars>>

\* No aggregator built yet.
NoAgg  == [kind |-> "None"]

\* No partitions created yet; a caller outside any call; no task spawned.
NoSched  == [built |-> FALSE]
NoPCall  == [pc |-> "idle", index |-> 0]
NoReuse  == [spawned |-> 0, queued |-> 0, some |-> EmptyBag, send |-> EmptyBag]
\* No wrapper built yet.
NoRd     == [built |-> FALSE]
\* No controller built yet.
NoAu     == [built |-> FALSE]
\* No batch yet.
NoRun    == [batch |-> 0, n |-> 0, latency |-> 0, in_flight |-> 0,
             first |-> <<0, 0>>, higher |-> 0]
NoALog == [op |-> "none", since |-> <<>>, out |-> NoSample, dropped |-> 0,
           panicked |-> FALSE]

\* No wrapper built yet, no update call made yet.
NoWin  == [kind |-> "None"]
NoUpd  == [pc |-> "idle", sample |-> NoSample, id |-> 0,
           agg_sample |-> NoSample, window |-> {}, forwarded |-> FALSE,
           ret |-> 0]
NoHist == [calls |-> 0, window |-> {}, forwards |-> <<>>]

Clamp(x, lo, hi) == IF x < lo THEN lo ELSE IF x > hi THEN hi ELSE x

\* Callers that own an OwnedSemaphorePermit: from the acquire that produced
\* it, through the token's life, until the permit field is dropped.
HoldsPermit(c) ==
    pc[c] \in {"mint", "held", "update", "load", "swap", "reconcile",
               "drop", "dropPermit"}

\* Callers whose Acquire future has been handed its permit by the semaphore
\* but has not been polled since.
Granted(c) == pc[c] \in {"granted", "elapsedGranted"}

\* Callers whose token is live: Token::new has run, TokenInner::drop has not.
LiveToken(c) ==
    pc[c] \in {"held", "update", "load", "swap", "reconcile", "drop"}

\* ------------------------------------------------------ the semaphore
\* Hand n permits to the queue, front first; a waiter leaves the queue once
\* it has everything it asked for.  What the queue does not take goes to
\* the available permits.
RECURSIVE AssignPermits(_, _, _)
AssignPermits(q, n, woken) ==
    IF n = 0 \/ q = <<>>
    THEN [queue |-> q, rest |-> n, woken |-> woken]
    ELSE LET w == Head(q) IN
         IF n >= w.rem
         THEN AssignPermits(Tail(q), n - w.rem,
                            woken \cup {[kind |-> w.kind, id |-> w.id]})
         ELSE [queue |-> <<[w EXCEPT !.rem = w.rem - n]>> \o Tail(q),
               rest |-> 0, woken |-> woken]

\* pc of a caller whose queued acquire has just been given its permit.
WokenPc(p) == IF p = "waiting" THEN "granted" ELSE "elapsedGranted"

\* Semaphore::add_permits(n), with me (a caller, or 0 for a task) moving to
\* myPc in the same step.
AddPermits(n, me, myPc) ==
    LET r == AssignPermits(waiters, n, {}) IN
    /\ waiters' = r.queue
    /\ permits' = permits + r.rest
    /\ pc' = [c \in Callers |->
                IF c = me THEN myPc
                ELSE IF [kind |-> "caller", id |-> c] \in r.woken
                     THEN WokenPc(pc[c]) ELSE pc[c]]
    /\ tasks' = [t \in TaskIds |->
                   IF [kind |-> "task", id |-> t] \in r.woken
                   THEN [tasks[t] EXCEPT !.st = "ready"] ELSE tasks[t]]

\* The queue without the entry of one waiter.
RemoveWaiter(q, kind, id) ==
    SelectSeq(q, LAMBDA w : ~(w.kind = kind /\ w.id = id))

\* ------------------------------------------------------ limit algorithms
\* A decrease that rounds to the nearest whole limit.
MultiplicativeDecreaseRounds(l, factor) == (l * factor + 5) \div 10

\* Fixed::update and Aimd::update's fetch_update closure, on the algorithm's
\* current limit l.
MultiplicativeDecrease(l, factor) == (l * factor) \div 10

\* An increase that also fires at exactly the utilisation threshold.
AimdClosureAtThreshold(a, l, sample_in_flight, outcome) ==
    IF outcome = "Success"
    THEN IF sample_in_flight * 10 >= a.min_utilisation_threshold * l
         THEN Clamp(l + a.increase_by, a.min_limit, a.max_limit)
         ELSE l
    ELSE Clamp(MultiplicativeDecrease(l, a.decrease_factor),
               a.min_limit, a.max_limit)

\* The fetch_update closures of Aimd::update for the controller a.
AimdClosure(a, l, sample_in_flight, outcome) ==
    IF outcome = "Success"
    THEN IF sample_in_flight * 10 > a.min_utilisation_threshold * l
         THEN Clamp(l + a.increase_by, a.min_limit, a.max_limit)
         ELSE l
    ELSE Clamp(MultiplicativeDecrease(l, a.decrease_factor),
               a.min_limit, a.max_limit)

AimdNext(l, sample_in_flight, outcome) ==
    AimdClosure(algo, l, sample_in_flight, outcome)

\* ------------------------------------------------------------ initial
Algos ==
    {[kind |-> "Fixed", initial |-> l, min_limit |-> l, max_limit |-> l,
      decrease_factor |-> 10, increase_by |-> 0,
      min_utilisation_threshold |-> 10] : l \in 1..MaxLimit}
    \cup
    {[kind |-> "Aimd", initial |-> l, min_limit |-> DEFAULT_MIN_LIMIT,
      max_limit |-> MaxLimit, decrease_factor |-> f, increase_by |-> 1,
      min_utilisation_threshold |-> u] :
        l \in DEFAULT_MIN_LIMIT..MaxLimit, f \in DecreaseFactors,
        u \in UtilisationThresholds}

Init ==
    /\ algo \in Algos
    /\ algo_limit = algo.initial
    /\ limit = algo.initial
    /\ permits = algo.initial
    /\ waiters = <<>>
    /\ in_flight = 0
    /\ pc = [c \in Callers |-> "idle"]
    /\ loc = [c \in Callers |-> NoLoc]
    /\ tasks = [t \in TaskIds |-> FreeTask]
    /\ ctl = NoCtl
    /\ call = NoCall
    /\ win = NoWin
    /\ upd = [c \in Callers |-> NoUpd]
    /\ now = 0
    /\ hist = NoHist
    /\ agg = NoAgg
    /\ alog = NoALog
    /\ sched = NoSched
    /\ pcall = [c \in Callers |-> NoPCall]
    /\ reuse = NoReuse
    /\ held = <<>>
    /\ rd = NoRd
    /\ au = NoAu
    /\ gr = NoRun

\* ------------------------------------------------------------ acquire
\* A try_acquire that queues for a permit when none is available.
TryAcquireQueues(c) ==
    /\ pc[c] = "idle"
    /\ IF permits > 0
       THEN /\ permits' = permits - 1
            /\ pc' = [pc EXCEPT ![c] = "mint"]
            /\ UNCHANGED waiters
       ELSE /\ waiters' = Append(waiters, [kind |-> "caller", id |-> c, rem |-> 1])
            /\ pc' = [pc EXCEPT ![c] = "waiting"]
            /\ UNCHANGED permits
    /\ UNCHANGED <<algo, algo_limit, limit, in_flight, loc, tasks>>

\* try_acquire: try_acquire_owned takes a permit if one is available and
\* never queues; with no permit it returns None (no rejection delay is set
\* by DefaultLimiter::new).
TryAcquire(c) ==
    /\ pc[c] = "idle"
    /\ IF permits > 0
       THEN /\ permits' = permits - 1
            /\ pc' = [pc EXCEPT ![c] = "mint"]
       ELSE /\ pc' = [pc EXCEPT ![c] = "rejected"]
            /\ UNCHANGED permits
    /\ UNCHANGED <<algo, algo_limit, limit, waiters, in_flight, loc, tasks>>

\* A Token::new that counts the token twice.
MintTokenTwice(c) ==
    /\ pc[c] = "mint"
    /\ in_flight' = in_flight + 2
    /\ pc' = [pc EXCEPT ![c] = "held"]
    /\ UNCHANGED <<algo, algo_limit, limit, permits, waiters, loc, tasks>>

\* mint_token / Token::new: count the token in.
MintToken(c) ==
    /\ pc[c] = "mint"
    /\ in_flight' = in_flight + 1
    /\ pc' = [pc EXCEPT ![c] = "held"]
    /\ UNCHANGED <<algo, algo_limit, limit, permits, waiters, loc, tasks>>

\* acquire_timeout(d), first poll: timeout polls acquire_owned before its
\* timer, so an available permit is taken even when d = 0; otherwise the
\* acquire joins the back of the queue.
AcquireTimeout(c, d) ==
    /\ pc[c] = "idle"
    /\ IF permits > 0
       THEN /\ permits' = permits - 1
            /\ pc' = [pc EXCEPT ![c] = "mint"]
            /\ UNCHANGED <<waiters, loc>>
       ELSE /\ waiters' = Append(waiters, [kind |-> "caller", id |-> c, rem |-> 1])
            /\ pc' = [pc EXCEPT ![c] = "waiting"]
            /\ loc' = [loc EXCEPT ![c].timer = d]
            /\ UNCHANGED permits
    /\ UNCHANGED <<algo, algo_limit, limit, in_flight, tasks>>

\* Time passes: every running timer gets one tick closer to its deadline.
Tick ==
    /\ \E c \in Callers : pc[c] \in {"waiting", "granted"} /\ loc[c].timer > 0
    /\ loc' = [c \in Callers |->
                 IF pc[c] \in {"waiting", "granted"} /\ loc[c].timer > 0
                 THEN [loc[c] EXCEPT !.timer = @ - 1] ELSE loc[c]]
    /\ UNCHANGED <<algo, algo_limit, limit, permits, waiters, in_flight, pc, tasks>>

\* The waiting caller is polled after its acquire was given the permit:
\* Ok(Ok(permit)), whether or not the timer has run out meanwhile.
AcquireGranted(c) ==
    /\ pc[c] = "granted"
    /\ pc' = [pc EXCEPT ![c] = "mint"]
    /\ loc' = [loc EXCEPT ![c] = NoLoc]
    /\ UNCHANGED <<algo, algo_limit, limit, permits, waiters, in_flight, tasks>>

\* The waiting caller is polled with no permit and the timer run out:
\* timeout resolves to Err(Elapsed).  The Acquire future is still queued.
AcquireElapsed(c) ==
    /\ pc[c] = "waiting"
    /\ loc[c].timer = 0
    /\ pc' = [pc EXCEPT ![c] = "elapsed"]
    /\ UNCHANGED <<algo, algo_limit, limit, permits, waiters, in_flight, loc, tasks>>

\* A drop of the Acquire future that keeps a permit it was given.
DropAcquireLeaks(c, nextPc) ==
    /\ loc' = [loc EXCEPT ![c] = NoLoc]
    /\ waiters' = RemoveWaiter(waiters, "caller", c)
    /\ pc' = [pc EXCEPT ![c] = nextPc]
    /\ UNCHANGED <<algo, algo_limit, limit, permits, in_flight, tasks>>

\* Dropping the Acquire future: it leaves the queue, and a permit it was
\* given meanwhile goes back to the semaphore.
DropAcquire(c, nextPc) ==
    /\ loc' = [loc EXCEPT ![c] = NoLoc]
    /\ IF Granted(c)
       THEN /\ AddPermits(1, c, nextPc)
       ELSE /\ waiters' = RemoveWaiter(waiters, "caller", c)
            /\ pc' = [pc EXCEPT ![c] = nextPc]
            /\ UNCHANGED <<permits, tasks>>
    /\ UNCHANGED <<algo, algo_limit, limit, in_flight>>

\* acquire_timeout after Err(Elapsed): the future is dropped, on_rejection
\* comes next.
AcquireTimedOut(c) ==
    /\ pc[c] \in {"elapsed", "elapsedGranted"}
    /\ DropAcquire(c, "rejected")

\* The caller's task is cancelled while it waits in acquire_timeout.
CancelAcquire(c) ==
    /\ pc[c] \in {"waiting", "granted"}
    /\ DropAcquire(c, "idle")

\* on_rejection with rejection_delay = None, then the acquire returns None.
Rejected(c) ==
    /\ pc[c] = "rejected"
    /\ pc' = [pc EXCEPT ![c] = "idle"]
    /\ UNCHANGED <<algo, algo_limit, limit, permits, waiters, in_flight, loc, tasks>>

\* ------------------------------------------------------------ release
\* Shrink tasks are kept in MaxTasks slots; a release that may spawn one
\* starts only while a slot is left for it.
FreeTasks == {t \in TaskIds : tasks[t].st = "free"}
Updating == {c \in Callers : pc[c] \in {"update", "load", "swap", "reconcile"}}

\* A sample taken once the released token has been counted out.
NewSampleAfterDrop(outcome) == [in_flight |-> in_flight - 1, outcome |-> outcome]

\* DefaultLimiter::new_sample: the in-flight counter as it is now.
NewSample(outcome) == [in_flight |-> in_flight, outcome |-> outcome]

\* A release that takes a missing outcome for a success.
ReleaseNoneAsSuccess(c, outcome) ==
    /\ pc[c] = "held"
    /\ Cardinality(FreeTasks) > Cardinality(Updating)
    /\ pc' = [pc EXCEPT ![c] = "update"]
    /\ loc' = [loc EXCEPT ![c].outcome =
                              IF outcome = NoOutcome THEN "Success" ELSE outcome,
                          ![c].sample_in_flight = in_flight]
    /\ UNCHANGED <<algo, algo_limit, limit, permits, waiters, in_flight, tasks>>

\* release(token, outcome), up to the call of update: with an outcome the
\* sample is taken; with None the algorithm's limit is read and only the
\* drop of the token is left.
Release(c, outcome) ==
    /\ pc[c] = "held"
    /\ IF outcome = NoOutcome
       THEN /\ pc' = [pc EXCEPT ![c] = "drop"]
            /\ loc' = [loc EXCEPT ![c].new_limit = algo_limit]
       ELSE /\ Cardinality(FreeTasks) > Cardinality(Updating)
            /\ pc' = [pc EXCEPT ![c] = "update"]
            /\ loc' = [loc EXCEPT ![c].outcome = NewSample(outcome).outcome,
                                  ![c].sample_in_flight = NewSample(outcome).in_flight]
    /\ UNCHANGED <<algo, algo_limit, limit, permits, waiters, in_flight, tasks>>

\* limit_algo.update(sample): Fixed returns its limit; Aimd runs one atomic
\* fetch_update on its limit and reads the result back separately.
Update(c) ==
    /\ pc[c] = "update"
    /\ IF algo.kind = "Fixed"
       THEN /\ pc' = [pc EXCEPT ![c] = "swap"]
            /\ loc' = [loc EXCEPT ![c].new_limit = algo_limit,
                                  ![c].sample_in_flight = 0]
            /\ UNCHANGED algo_limit
       ELSE /\ algo_limit' = AimdNext(algo_limit, loc[c].sample_in_flight,
                                      loc[c].outcome)
            /\ pc' = [pc EXCEPT ![c] = "load"]
            /\ loc' = [loc EXCEPT ![c].sample_in_flight = 0]
    /\ UNCHANGED <<algo, limit, permits, waiters, in_flight, tasks>>

\* Aimd::update's closing self.limit.load: the value update returns.
UpdateLoad(c) ==
    /\ pc[c] = "load"
    /\ pc' = [pc EXCEPT ![c] = "swap"]
    /\ loc' = [loc EXCEPT ![c].new_limit = algo_limit]
    /\ UNCHANGED <<algo, algo_limit, limit, permits, waiters, in_flight, tasks>>

\* old_limit = self.limit.swap(new_limit)
Swap(c) ==
    /\ pc[c] = "swap"
    /\ limit' = loc[c].new_limit
    /\ loc' = [loc EXCEPT ![c].old_limit = limit]
    /\ pc' = [pc EXCEPT ![c] = "reconcile"]
    /\ UNCHANGED <<algo, algo_limit, permits, waiters, in_flight, tasks>>

\* A shrink that asks for one permit too many.
SpawnShrinkTooMany(n) ==
    LET t == CHOOSE x \in FreeTasks : \A y \in FreeTasks : x <= y IN
    tasks' = [tasks EXCEPT ![t] = [st |-> "spawned", need |-> n + 1]]

\* The lowest free slot takes the spawned task.
SpawnShrink(n) ==
    LET t == CHOOSE x \in FreeTasks : \A y \in FreeTasks : x <= y IN
    tasks' = [tasks EXCEPT ![t] = [st |-> "spawned", need |-> n]]

\* A reconciliation that adds one permit for any increase.
ReconcileAddsOne(c) ==
    /\ pc[c] = "reconcile"
    /\ LET new == loc[c].new_limit
           old == loc[c].old_limit IN
       IF new > old
       THEN AddPermits(1, c, "drop")
       ELSE IF new < old
       THEN /\ SpawnShrink(old - new)
            /\ pc' = [pc EXCEPT ![c] = "drop"]
            /\ UNCHANGED <<permits, waiters>>
       ELSE /\ pc' = [pc EXCEPT ![c] = "drop"]
            /\ UNCHANGED <<permits, waiters, tasks>>
    /\ UNCHANGED <<algo, algo_limit, limit, in_flight, loc>>

\* A reconciliation that takes the permits of a decrease itself.
ReconcileShrinksInline(c) ==
    /\ pc[c] = "reconcile"
    /\ LET new == loc[c].new_limit
           old == loc[c].old_limit IN
       IF new > old
       THEN AddPermits(new - old, c, "drop")
       ELSE IF new < old
       THEN /\ permits >= old - new
            /\ permits' = permits - (old - new)
            /\ pc' = [pc EXCEPT ![c] = "drop"]
            /\ UNCHANGED <<waiters, tasks>>
       ELSE /\ pc' = [pc EXCEPT ![c] = "drop"]
            /\ UNCHANGED <<permits, waiters, tasks>>
    /\ UNCHANGED <<algo, algo_limit, limit, in_flight, loc>>

\* match new_limit.cmp(&old_limit): add the permits of an increase at once,
\* spawn a task for a decrease, nothing when equal.
Reconcile(c) ==
    /\ pc[c] = "reconcile"
    /\ LET new == loc[c].new_limit
           old == loc[c].old_limit IN
       IF new > old
       THEN AddPermits(new - old, c, "drop")
       ELSE IF new < old
       THEN /\ SpawnShrink(old - new)
            /\ pc' = [pc EXCEPT ![c] = "drop"]
            /\ UNCHANGED <<permits, waiters>>
       ELSE /\ pc' = [pc EXCEPT ![c] = "drop"]
            /\ UNCHANGED <<permits, waiters, tasks>>
    /\ UNCHANGED <<algo, algo_limit, limit, in_flight, loc>>

\* A TokenInner::drop that forgets the in-flight counter.
DropTokenUncounted(c) ==
    /\ pc[c] \in {"held", "drop"}
    /\ pc' = [pc EXCEPT ![c] = "dropPermit"]
    /\ loc' = [loc EXCEPT ![c].old_limit = 0]
    /\ UNCHANGED <<algo, algo_limit, limit, permits, waiters, in_flight, tasks>>

\* The token goes out of scope, at the end of release or because its holder
\* drops it: TokenInner::drop counts it out ...
DropToken(c) ==
    /\ pc[c] \in {"held", "drop"}
    /\ in_flight' = in_flight - 1
    /\ pc' = [pc EXCEPT ![c] = "dropPermit"]
    /\ loc' = [loc EXCEPT ![c].old_limit = 0]
    /\ UNCHANGED <<algo, algo_limit, limit, permits, waiters, tasks>>

\* ... and then its OwnedSemaphorePermit field is dropped, which gives the
\* permit back; release returns.
DropPermit(c) ==
    /\ pc[c] = "dropPermit"
    /\ AddPermits(1, c, "idle")
    /\ loc' = [loc EXCEPT ![c] = NoLoc]
    /\ UNCHANGED <<algo, algo_limit, limit, in_flight>>

\* ------------------------------------------------------- shrink tasks
\* A task that gives up on the permits it cannot get at once.
TaskAcquireAvailableOnly(t) ==
    /\ tasks[t].st = "spawned"
    /\ permits' = IF permits >= tasks[t].need THEN permits - tasks[t].need ELSE 0
    /\ tasks' = [tasks EXCEPT ![t] = FreeTask]
    /\ UNCHANGED <<algo, algo_limit, limit, waiters, in_flight, pc, loc>>

\* First poll of a spawned task: acquire_many(need) takes what is available
\* and queues for the rest; with everything at hand it forgets the permits
\* and ends.
TaskAcquire(t) ==
    /\ tasks[t].st = "spawned"
    /\ IF permits >= tasks[t].need
       THEN /\ permits' = permits - tasks[t].need
            /\ tasks' = [tasks EXCEPT ![t] = FreeTask]
            /\ UNCHANGED waiters
       ELSE /\ permits' = 0
            /\ waiters' = Append(waiters, [kind |-> "task", id |-> t,
                                           rem |-> tasks[t].need - permits])
            /\ tasks' = [tasks EXCEPT ![t].st = "queued"]
    /\ UNCHANGED <<algo, algo_limit, limit, in_flight, pc, loc>>

\* The task is polled after the queue gave it its last permit:
\* permits.forget(), and the task ends.
TaskForget(t) ==
    /\ tasks[t].st = "ready"
    /\ tasks' = [tasks EXCEPT ![t] = FreeTask]
    /\ UNCHANGED <<algo, algo_limit, limit, permits, waiters, in_flight, pc, loc>>

\* --------------------------------------------------------------- next
Next ==
    \/ \E c \in Callers : TryAcquire(c) /\ GateOnly
    \/ \E c \in Callers : MintToken(c) /\ GateOnly
    \/ \E c \in Callers, d \in Durations : AcquireTimeout(c, d) /\ GateOnly
    \/ Tick /\ GateOnly
    \/ \E c \in Callers : AcquireGranted(c) /\ GateOnly
    \/ \E c \in Callers : AcquireElapsed(c) /\ GateOnly
    \/ \E c \in Callers : AcquireTimedOut(c) /\ GateOnly
    \/ \E c \in Callers : CancelAcquire(c) /\ GateOnly
    \/ \E c \in Callers : Rejected(c) /\ GateOnly
    \/ \E c \in Callers, o \in Outcomes \cup {NoOutcome} : Release(c, o) /\ GateOnly
    \/ \E c \in Callers : Update(c) /\ GateOnly
    \/ \E c \in Callers : UpdateLoad(c) /\ GateOnly
    \/ \E c \in Callers : Swap(c) /\ GateOnly
    \/ \E c \in Callers : Reconcile(c) /\ GateOnly
    \/ \E c \in Callers : DropToken(c) /\ GateOnly
    \/ \E c \in Callers : DropPermit(c) /\ GateOnly
    \/ \E t \in TaskIds : TaskAcquire(t) /\ GateOnly
    \/ \E t \in TaskIds : TaskForget(t) /\ GateOnly

Spec == Init /\ [][Next]_vars

\* What a caller does next with a permit it has obtained: mint the token,
\* use it and give it back (released or dropped), or, for a call that gave
\* up, hand the permit back.
ReturnPermit(c) ==
    \/ MintToken(c)
    \/ AcquireGranted(c)
    \/ AcquireTimedOut(c)
    \/ \E o \in Outcomes \cup {NoOutcome} : Release(c, o)
    \/ Update(c)
    \/ UpdateLoad(c)
    \/ Swap(c)
    \/ Reconcile(c)
    \/ DropToken(c)
    \/ DropPermit(c)

\* The runtime polls every spawned or woken task, and every caller that has
\* a permit goes on until the permit is back: live tokens are eventually
\* dropped.
FairSpec ==
    /\ Spec
    /\ \A t \in TaskIds : /\ WF_vars(TaskAcquire(t) /\ GateOnly)
                           /\ WF_vars(TaskForget(t) /\ GateOnly)
    /\ \A c \in Callers : WF_vars(ReturnPermit(c) /\ GateOnly)

\* ========================================================== accounting
\* Permits owned by callers (inside a token, or on the way into one).
PermitsHeld == Cardinality({c \in Callers : HoldsPermit(c)})

\* Permits the queue has given to a waiting acquire_timeout that has not
\* been polled since.
PermitsGranted == Cardinality({c \in Callers : Granted(c)})

LiveTokens == Cardinality({c \in Callers : LiveToken(c)})

\* What a queued waiter still has to get.
RemOf(kind, id) ==
    LET i == CHOOSE j \in DOMAIN waiters :
                 waiters[j].kind = kind /\ waiters[j].id = id
    IN waiters[i].rem

\* Permits a shrink task has still to take out of the pool.
TaskPending(t) ==
    CASE tasks[t].st = "spawned" -> tasks[t].need
      [] tasks[t].st = "queued"  -> RemOf("task", t)
      [] OTHER                   -> 0

RECURSIVE SumPending(_)
SumPending(S) ==
    IF S = {} THEN 0
    ELSE LET t == CHOOSE y \in S : TRUE IN TaskPending(t) + SumPending(S \ {t})

PendingDiscard == SumPending(TaskIds)

\* Permits a shrink task has taken so far (and will forget).
TaskAssigned(t) ==
    IF tasks[t].st \in {"queued", "ready"}
    THEN tasks[t].need - TaskPending(t) ELSE 0

RECURSIVE SumAssigned(_)
SumAssigned(S) ==
    IF S = {} THEN 0
    ELSE LET t == CHOOSE y \in S : TRUE IN TaskAssigned(t) + SumAssigned(S \ {t})

\* Every permit there is: available, in callers' hands, or collected by a
\* shrink task that has not finished.
TotalPermits ==
    permits + PermitsHeld + PermitsGranted + SumAssigned(TaskIds)

\* No operation is mid-way: every caller is between operations, with or
\* without a token in hand.
Quiescent == \A c \in Callers : pc[c] \in {"idle", "held"}

\* ============================================================== claims

\* C1: with a Fixed controller at limit L, at every point where no operation
\* is mid-way, in_flight <= L and available + in_flight = L.
C1_FixedQuiescentBalance ==
    (algo.kind = "Fixed" /\ Quiescent) =>
        /\ in_flight <= algo.initial
        /\ permits + in_flight = algo.initial

\* C1 witness: a Fixed gate at rest with every permit in a token.
C1_Witness ==
    /\ algo.kind = "Fixed"
    /\ Quiescent
    /\ in_flight = algo.initial
    /\ in_flight = NumCallers

\* C5: in_flight equals the number of live tokens, and is never negative.
C5_InFlightCountsLiveTokens ==
    /\ in_flight = LiveTokens
    /\ in_flight >= 0

\* C5 witness: a token is being destroyed (counted out, permit not yet
\* back) while another one is live.
C5_Witness ==
    /\ in_flight = 1
    /\ \E c \in Callers : pc[c] = "dropPermit"
    /\ \E c \in Callers : pc[c] = "held"

\* C2: permits are neither lost nor duplicated.  Whenever no release is
\* between its limit swap and its pool adjustment, the available permits
\* plus the permits in callers' hands (in a token, or obtained by an acquire
\* that is about to mint its token) equal the gate's stored limit plus the
\* permits that shrink tasks have still to take out of the pool.
C2_PermitsConserved ==
    (\A c \in Callers : pc[c] # "reconcile") =>
        permits + PermitsHeld + PermitsGranted = limit + PendingDiscard

\* C2 witness: an Aimd gate whose limit went down while every permit was in
\* a token; the shrink task is queued for permits it has yet to get.
C2_Witness ==
    /\ algo.kind = "Aimd"
    /\ \A c \in Callers : pc[c] # "reconcile"
    /\ \E t \in TaskIds : tasks[t].st = "queued" /\ tasks[t].need = 2
    /\ PermitsHeld > limit

\* C3: try_acquire never waits.  With a permit available it takes one
\* (available - 1) and mints the token (in_flight + 1); with none it joins
\* no queue, returns None and leaves limit, available and in_flight as they
\* are.  None of its steps can be held up.
C3_TryAcquireStep(c) ==
    /\ TryAcquire(c) =>
          IF permits > 0
          THEN /\ pc'[c] = "mint"
               /\ permits' = permits - 1
               /\ UNCHANGED <<limit, in_flight, waiters>>
          ELSE /\ pc'[c] = "rejected"
               /\ UNCHANGED <<limit, permits, in_flight, waiters>>
    /\ MintToken(c) =>
          /\ pc'[c] = "held"
          /\ in_flight' = in_flight + 1
          /\ UNCHANGED <<limit, permits, waiters>>
    /\ Rejected(c) =>
          /\ pc'[c] = "idle"
          /\ UNCHANGED <<limit, permits, in_flight, waiters>>

\* C3: every step of try_acquire is as stated above (a permit taken iff one
\* is available, nothing changed otherwise) and no step of it can be held up.
C3_TryAcquireNeverWaits ==
    /\ [][\A c \in Callers : C3_TryAcquireStep(c)]_vars
    /\ [](\A c \in Callers :
            /\ pc[c] = "idle" => ENABLED TryAcquire(c)
            /\ pc[c] = "mint" => ENABLED MintToken(c)
            /\ pc[c] = "rejected" => ENABLED Rejected(c))

\* C3 witness: a caller turned away with no permit available and nobody
\* queued, every permit being in another caller's token.
C3_Witness ==
    /\ permits = 0
    /\ waiters = <<>>
    /\ \E c \in Callers :
         /\ pc[c] = "rejected"
         /\ \A o \in Callers \ {c} : pc[o] = "held"
    /\ in_flight = limit

\* C4: acquire_timeout(d) takes an available permit at once and waits only
\* when there is none; a waiting call that has been given a permit ends
\* with a token (or is cancelled), never with None; it gives up only once d
\* has elapsed; and a call that times out or is cancelled takes nothing with
\* it: no permit stays with it, none is lost, in_flight is untouched.
C4_AcquireTimeoutStep(c) ==
    /\ (pc[c] = "idle" /\ pc'[c] = "waiting") => permits = 0
    /\ (\E d \in Durations : AcquireTimeout(c, d)) /\ permits > 0 => pc'[c] = "mint"
    /\ pc[c] = "granted" => pc'[c] \in {"granted", "mint", "idle"}
    /\ (pc[c] = "waiting" /\ pc'[c] = "elapsed") => loc[c].timer = 0
    /\ (pc[c] = "waiting" /\ pc'[c] = "waiting") => loc'[c].timer <= loc[c].timer
    /\ (AcquireTimedOut(c) \/ CancelAcquire(c)) =>
          /\ pc'[c] \in {"rejected", "idle"}
          /\ ~HoldsPermit(c)' /\ ~Granted(c)'
          /\ \A i \in DOMAIN waiters' : ~(waiters'[i].kind = "caller" /\ waiters'[i].id = c)
          /\ TotalPermits' = TotalPermits
          /\ PermitsHeld' = PermitsHeld
          /\ in_flight' = in_flight

\* C4: every step of acquire_timeout is as stated above (a token when a
\* permit comes in time, None only after d, nothing consumed by a timeout or
\* a cancellation), and a call that was given a permit can always return.
C4_AcquireTimeout ==
    /\ [][\A c \in Callers : C4_AcquireTimeoutStep(c)]_vars
    /\ [](\A c \in Callers : pc[c] = "granted" => ENABLED AcquireGranted(c))

\* C4 witness: a call whose timeout has fired and whose queued acquire was
\* handed a permit before the future was dropped.
C4_Witness == \E c \in Callers : pc[c] = "elapsedGranted"

\* C6: release(token, None) makes no controller update.  The call reads the
\* controller's limit and goes straight to dropping the token: the
\* controller's limit, the gate's stored limit and the number of permits
\* stay as they are, in_flight goes down by one and the token's permit goes
\* back to the pool.
C6_ReleaseNoneStep(c) ==
    /\ Release(c, NoOutcome) =>
          /\ pc'[c] = "drop"
          /\ loc'[c].new_limit = algo_limit
          /\ UNCHANGED <<algo_limit, limit, permits, waiters, in_flight, tasks>>
    /\ (pc[c] = "drop" /\ loc[c].outcome = NoOutcome /\ pc'[c] # "drop") =>
          /\ pc'[c] = "dropPermit"
          /\ in_flight' = in_flight - 1
          /\ UNCHANGED <<algo_limit, limit, permits, waiters, tasks>>
    /\ (pc[c] = "dropPermit" /\ loc[c].outcome = NoOutcome /\ pc'[c] # "dropPermit") =>
          /\ pc'[c] = "idle"
          /\ PermitsHeld' = PermitsHeld - 1
          /\ TotalPermits' = TotalPermits
          /\ UNCHANGED <<algo_limit, limit, in_flight>>

\* C6: every step of a release with no outcome is as stated above: no
\* update, limits and permit total unchanged, in_flight down by one.
C6_ReleaseNoneChangesNoLimit ==
    [][\A c \in Callers : C6_ReleaseNoneStep(c)]_vars

\* C6 witness: a release with no outcome has given its permit back on an
\* Aimd gate where a Success sample taken at that release would have raised
\* the limit.
C6_Witness ==
    \E c \in Callers :
        /\ algo.kind = "Aimd"
        /\ pc[c] = "dropPermit"
        /\ loc[c].outcome = NoOutcome
        /\ loc[c].new_limit = limit
        /\ AimdNext(algo_limit, in_flight + 1, "Success") > algo_limit
        /\ tasks = [t \in TaskIds |-> FreeTask]

\* C7: when update returns a limit above the stored one, release adds
\* exactly (new_limit - old_limit) permits in its reconciliation step, before
\* it drops the token and returns; with nobody queued they are all
\* available at once.
C7_IncreaseStep(c) ==
    (pc[c] = "reconcile" /\ pc'[c] # "reconcile"
        /\ loc[c].new_limit > loc[c].old_limit) =>
          /\ pc'[c] = "drop"
          /\ TotalPermits' = TotalPermits + (loc[c].new_limit - loc[c].old_limit)
          /\ PermitsHeld' = PermitsHeld
          /\ waiters = <<>> =>
                permits' = permits + (loc[c].new_limit - loc[c].old_limit)
          /\ \A t \in TaskIds : tasks'[t].st = "spawned" => tasks[t].st = "spawned"

\* C7: every reconciliation of an increase adds exactly new_limit - old_limit
\* permits before the release drops its token and returns.
C7_IncreaseAddsPermitsAtOnce ==
    [][\A c \in Callers : C7_IncreaseStep(c)]_vars

\* C7 witness: a release has raised the limit past the tokens in use and
\* has not dropped its own token yet; the added permit is available.
C7_Witness ==
    \E c \in Callers :
        /\ pc[c] = "drop"
        /\ loc[c].new_limit > loc[c].old_limit
        /\ loc[c].old_limit = PermitsHeld
        /\ permits = loc[c].new_limit - loc[c].old_limit
        /\ limit = loc[c].new_limit

\* The steps a release is made of, after its first.
ReleaseStep(c) ==
    \/ Update(c)
    \/ UpdateLoad(c)
    \/ Swap(c)
    \/ Reconcile(c)
    \/ DropToken(c)
    \/ DropPermit(c)

InRelease(c) ==
    pc[c] \in {"update", "load", "swap", "reconcile", "drop", "dropPermit"}

\* C8: a release that lowers the limit never waits on the pool.  Its
\* reconciliation step takes no permit and joins no queue, it hands the
\* (old - new) permits to a new background task, and every step of a release
\* can be taken whatever the pool holds.
C8_DecreaseStep(c) ==
    (pc[c] = "reconcile" /\ pc'[c] # "reconcile"
        /\ loc[c].new_limit < loc[c].old_limit) =>
          /\ pc'[c] = "drop"
          /\ UNCHANGED <<permits, waiters, in_flight, limit>>
          /\ \E t \in TaskIds :
                /\ tasks[t].st = "free"
                /\ tasks'[t] = [st |-> "spawned",
                                need |-> loc[c].old_limit - loc[c].new_limit]
                /\ \A u \in TaskIds \ {t} : tasks'[u] = tasks[u]

\* C8: every reconciliation of a decrease leaves the pool alone and spawns
\* the task, and no step of a release in progress is ever held up.
C8_ReleaseNeverWaits ==
    /\ [][\A c \in Callers : C8_DecreaseStep(c)]_vars
    /\ [](\A c \in Callers : InRelease(c) => ENABLED ReleaseStep(c))

\* C8 witness: a release has lowered the limit while every permit was in a
\* live token and goes on to drop its token; the task it spawned has taken
\* nothing yet.
C8_Witness ==
    \E c \in Callers :
        /\ pc[c] = "drop"
        /\ loc[c].new_limit < loc[c].old_limit
        /\ permits = 0
        /\ PermitsHeld = loc[c].old_limit
        /\ in_flight = loc[c].old_limit
        /\ \E t \in TaskIds : tasks[t].st = "spawned"

\* C10: release(token, Some(outcome)) takes its sample from the in-flight
\* counter while its own token is still counted, runs the controller's
\* update once, swaps the stored limit, reconciles, and only then counts
\* the token out and gives the permit back.  Nothing but an update step
\* changes the controller's limit.
C10_ReleaseStep(c) ==
    /\ (\E o \in Outcomes : Release(c, o)) =>
          /\ pc'[c] = "update"
          /\ loc'[c].sample_in_flight = in_flight
          /\ loc'[c].sample_in_flight >= 1
          /\ UNCHANGED <<in_flight, permits, limit, algo_limit>>
    /\ (pc[c] = "update" /\ pc'[c] # "update") =>
          /\ pc'[c] = IF algo.kind = "Fixed" THEN "swap" ELSE "load"
          /\ algo_limit' = IF algo.kind = "Fixed" THEN algo_limit
                           ELSE AimdNext(algo_limit, loc[c].sample_in_flight,
                                         loc[c].outcome)
          /\ UNCHANGED <<in_flight, permits, limit>>
    /\ (pc[c] = "load" /\ pc'[c] # "load") =>
          /\ pc'[c] = "swap"
          /\ UNCHANGED <<in_flight, permits, limit, algo_limit>>
    /\ (pc[c] = "swap" /\ pc'[c] # "swap") =>
          /\ pc'[c] = "reconcile"
          /\ limit' = loc[c].new_limit
          /\ loc'[c].old_limit = limit
          /\ UNCHANGED <<in_flight, permits, algo_limit>>
    /\ (pc[c] = "reconcile" /\ pc'[c] # "reconcile") =>
          /\ pc'[c] = "drop"
          /\ UNCHANGED <<in_flight, limit, algo_limit>>
    /\ (pc[c] = "drop" /\ pc'[c] # "drop") =>
          /\ pc'[c] = "dropPermit"
          /\ in_flight' = in_flight - 1
          /\ UNCHANGED <<permits, limit, algo_limit>>
    /\ (pc[c] = "dropPermit" /\ pc'[c] # "dropPermit") =>
          /\ pc'[c] = "idle"
          /\ TotalPermits' = TotalPermits
          /\ UNCHANGED <<in_flight, limit, algo_limit>>

\* C10: every release with an outcome samples in_flight with its own token
\* counted, updates the controller once, swaps the limit, and only then
\* drops the token; the controller's limit changes in update steps only.
C10_OneUpdateBeforeDrop ==
    [][/\ \A c \in Callers : C10_ReleaseStep(c)
       /\ algo_limit' # algo_limit =>
             \E c \in Callers : pc[c] = "update" /\ pc'[c] = "load"]_vars

\* C10 witness: a release with outcome Overload has updated the controller
\* and swapped the stored limit down; its token is still counted and still
\* holds its permit.
C10_Witness ==
    \E c \in Callers :
        /\ pc[c] = "reconcile"
        /\ loc[c].outcome = "Overload"
        /\ loc[c].new_limit < loc[c].old_limit
        /\ limit = loc[c].new_limit
        /\ algo_limit = limit
        /\ in_flight = NumCallers
        /\ permits = 0

\* C9: with live tokens eventually dropped, a shrink task spawned for a
\* decrease from old to new eventually ends, having taken exactly
\* (old - new) permits out of the pool for good: the permits it holds and
\* the ones it has still to get always add up to old - new, it ends only
\* with all of them, and they are gone with it.  With no task left and no
\* operation mid-way, available + in_flight is the stored limit.
C9_TaskStep(t) ==
    /\ tasks[t].st # "free" =>
          /\ tasks'[t].st = "free" \/ tasks'[t].need = tasks[t].need
          /\ TaskAssigned(t) + TaskPending(t) = tasks[t].need
    /\ (tasks[t].st # "free" /\ tasks'[t].st = "free") =>
          /\ TotalPermits' = TotalPermits - tasks[t].need
          /\ permits' = permits - TaskPending(t)
          /\ limit' = limit

\* C9: every shrink task eventually ends, it ends with exactly old - new
\* permits taken out for good, and at rest with no task left
\* available + in_flight = limit.
C9_ShrinkDiscardsExactly ==
    /\ \A t \in TaskIds : (tasks[t].st # "free") ~> (tasks[t].st = "free")
    /\ [][\A t \in TaskIds : C9_TaskStep(t)]_vars
    /\ []((Quiescent /\ \A t \in TaskIds : tasks[t].st = "free") =>
             permits + in_flight = limit)

\* C9 witness: the limit went down by two while both permits in use were in
\* live tokens; the task has ended, the gate is at rest at the new limit and
\* nothing more than the new limit is left.
C9_Witness ==
    /\ algo.kind = "Aimd"
    /\ algo.initial = MaxLimit
    /\ limit = 1
    /\ Quiescent
    /\ \A t \in TaskIds : tasks[t].st = "free"
    /\ TotalPermits = 1
    /\ in_flight = 1

\* ================================================= controllers on their own
\* The limit algorithms of src/src/limits, built through their constructors
\* and builder methods and fed samples by one owner.  Durations are whole
\* nanoseconds; f64 factors are tenths (0.9 is 9); Gradient's f64 limit is
\* kept in thousandths.
Latencies == {0, MIN_SAMPLE_LATENCY - 1, MIN_SAMPLE_LATENCY,
              MIN_SAMPLE_LATENCY * MaxLatency}
InFlights == 0..MaxInFlight
Samples   == [latency : Latencies, in_flight : InFlights, outcome : Outcomes]

\* Arguments the constructors and builder methods are called with.
LimitArgs  == 0..MaxLimit
FactorArgs == {5, 9, 10}
UtilisationArgs == {0, 5}

\* Duration::MAX, as the largest integer: longer than every latency and
\* every window bound.
DurationMax == 2147483647

\* moving_avg::ExpSmoothed::new_with_window_size
\* (smoothed counts the samples taken after the warm-up.)
NewExpSmoothed ==
    [value |-> 0, initial_sum |-> 0, initial_count |-> 0, smoothed |-> 0]

\* The fields of Aimd, Gradient (with its Inner) and Vegas (with its Inner)
\* in one record; a kind leaves the fields it does not have at these values.
Controller(kind, initial, lo, hi) ==
    [kind |-> kind, min_limit |-> lo, max_limit |-> hi, limit |-> initial,
     decrease_factor |-> 9, increase_by |-> 1,
     min_utilisation_threshold |-> 8,
     long_window_latency |-> NewExpSmoothed, limit_f |-> initial * 1000,
     base_latency |-> DurationMax]

\* What a call leaves behind: the sample it was given and the limit it found
\* (an update), the value it returned (0 when it returned none) and whether
\* it panicked.
Returned(op, ret) == [NoCall EXCEPT !.op = op, !.ret = ret]
Panicked(op)      == [NoCall EXCEPT !.op = op, !.panicked = TRUE]

Unbuilt == ctl.kind = "None" /\ call.op = "none"
\* Builder methods take self by value: they come before the controller is
\* handed to a limiter and updated.
Building(kinds) ==
    /\ ctl.kind \in kinds
    /\ call.op \notin {"none", "update"}
    /\ ~call.panicked

\* Fixed::new
FixedNew(l) ==
    /\ Unbuilt
    /\ IF l > 0
       THEN /\ ctl' = Controller("Fixed", l, l, l)
            /\ call' = Returned("new", 0)
       ELSE /\ call' = Panicked("new")
            /\ UNCHANGED ctl
    /\ UNCHANGED <<gateVars, restVars, winVars>>

\* Aimd::new, Gradient::new: the same three assertions.
New(kind, initial, lo, hi) ==
    /\ Unbuilt
    /\ kind \in {"Aimd", "Gradient"}
    /\ IF lo >= 1 /\ initial >= lo /\ initial <= hi
       THEN /\ ctl' = Controller(kind, initial, lo, hi)
            /\ call' = Returned("new", 0)
       ELSE /\ call' = Panicked("new")
            /\ UNCHANGED ctl
    /\ UNCHANGED <<gateVars, restVars, winVars>>

\* Aimd::new_with_initial_limit and Gradient::new_with_initial_limit go
\* through new with the default range; Vegas::new_with_initial_limit has one
\* assertion of its own.
NewWithInitialLimit(kind, initial) ==
    /\ Unbuilt
    /\ kind \in {"Aimd", "Gradient", "Vegas"}
    /\ LET ok == IF kind = "Vegas"
                 THEN initial > 0
                 ELSE /\ DEFAULT_MIN_LIMIT >= 1
                      /\ initial >= DEFAULT_MIN_LIMIT
                      /\ initial <= DEFAULT_MAX_LIMIT
       IN  IF ok
           THEN /\ ctl' = Controller(kind, initial, DEFAULT_MIN_LIMIT,
                                     DEFAULT_MAX_LIMIT)
                /\ call' = Returned("new_with_initial_limit", 0)
           ELSE /\ call' = Panicked("new_with_initial_limit")
                /\ UNCHANGED ctl
    /\ UNCHANGED <<gateVars, restVars, winVars>>

\* Aimd::with_max_limit, Gradient::with_max_limit, Vegas::with_max_limit
WithMaxLimit(max) ==
    /\ Building({"Aimd", "Gradient", "Vegas"})
    /\ IF max > 0
       THEN /\ ctl' = [ctl EXCEPT !.max_limit = max]
            /\ call' = Returned("with_max_limit", 0)
       ELSE /\ call' = Panicked("with_max_limit")
            /\ UNCHANGED ctl
    /\ UNCHANGED <<gateVars, restVars, winVars>>

\* Aimd::decrease_factor: (0.5..1.0).contains(&factor)
DecreaseFactor(factor) ==
    /\ Building({"Aimd"})
    /\ IF factor >= 5 /\ factor < 10
       THEN /\ ctl' = [ctl EXCEPT !.decrease_factor = factor]
            /\ call' = Returned("decrease_factor", 0)
       ELSE /\ call' = Panicked("decrease_factor")
            /\ UNCHANGED ctl
    /\ UNCHANGED <<gateVars, restVars, winVars>>

\* Aimd::increase_by
IncreaseBy(increase) ==
    /\ Building({"Aimd"})
    /\ IF increase > 0
       THEN /\ ctl' = [ctl EXCEPT !.increase_by = increase]
            /\ call' = Returned("increase_by", 0)
       ELSE /\ call' = Panicked("increase_by")
            /\ UNCHANGED ctl
    /\ UNCHANGED <<gateVars, restVars, winVars>>

\* Aimd::with_min_utilisation_threshold
WithMinUtilisationThreshold(min_util) ==
    /\ Building({"Aimd"})
    /\ IF min_util > 0 /\ min_util < 10
       THEN /\ ctl' = [ctl EXCEPT !.min_utilisation_threshold = min_util]
            /\ call' = Returned("with_min_utilisation_threshold", 0)
       ELSE /\ call' = Panicked("with_min_utilisation_threshold")
            /\ UNCHANGED ctl
    /\ UNCHANGED <<gateVars, restVars, winVars>>

\* ---------------------------------------------------- moving_avg.rs
\* Duration::mul_f64 by the fraction num / den.
MulF64(d, num, den) == (d * num) \div den

\* ExpSmoothed::sample subtracts Durations: `sample - self.value` panics when
\* the sample is the smaller one.
ExpSmoothedPanics(e, sample) ==
    /\ e.initial_count >= INITIAL_WARMUP_SAMPLES
    /\ sample < e.value

\* ExpSmoothed::sample, with smoothing_factor 2 / (k + 1)
ExpSmoothedSample(e, sample) ==
    IF e.initial_count < INITIAL_WARMUP_SAMPLES
    THEN LET sum   == e.initial_sum + sample
             count == e.initial_count + 1
         IN  [e EXCEPT !.value = sum \div count, !.initial_sum = sum,
                       !.initial_count = count]
    ELSE [e EXCEPT !.value = e.value + MulF64(sample - e.value, 2,
                                     DEFAULT_LONG_WINDOW_SAMPLES + 1),
                   !.smoothed = e.smoothed + 1]

\* ------------------------------------------------------------ update
\* The result of an update: the controller afterwards, the value returned,
\* and whether the call panicked instead of returning.
Result(c, ret)  == [ctl |-> c, ret |-> ret, panicked |-> FALSE]
Panic(c)        == [ctl |-> c, ret |-> 0, panicked |-> TRUE]

\* Fixed::update
FixedUpdate(c, sample) == Result(c, c.limit)

\* Aimd::update: usize::clamp asserts min <= max.
AimdClamps(c, sample) ==
    \/ sample.outcome = "Overload"
    \/ sample.in_flight * 10 > c.min_utilisation_threshold * c.limit

AimdUpdate(c, sample) ==
    IF AimdClamps(c, sample) /\ c.min_limit > c.max_limit
    THEN Panic(c)
    ELSE LET l == AimdClosure(c, c.limit, sample.in_flight, sample.outcome)
         IN  Result([c EXCEPT !.limit = l], l)

\* A Gradient update without the additive increase.
GradientApplyNoIncrease(c, sample) ==
    IF ExpSmoothedPanics(c.long_window_latency, sample.latency)
    THEN Panic(c)
    ELSE
    LET sampled  == ExpSmoothedSample(c.long_window_latency, sample.latency)
        long     == sampled.value
        window   == IF long > 2 * sample.latency
                    THEN [sampled EXCEPT !.value = MulF64(long, 95, 100)]
                    ELSE sampled
        old_limit == c.limit_f
        gradient == Clamp((2 * 1000 * long) \div sample.latency, 500, 1000)
        increase == 0
        applied  == (old_limit * gradient) \div 1000 + increase
        smoothed == (old_limit * 800 + applied * 200) \div 1000
        new_limit == Clamp(smoothed, c.min_limit * 1000, c.max_limit * 1000)
        rounded_limit == new_limit \div 1000
    IN  IF c.min_limit > c.max_limit
        THEN Panic([c EXCEPT !.long_window_latency = window])
        ELSE Result([c EXCEPT !.long_window_latency = window,
                              !.limit_f = new_limit,
                              !.limit = rounded_limit], rounded_limit)

\* Gradient::update.  DEFAULT_TOLERANCE 2, DEFAULT_SMOOTHING 0.2,
\* DEFAULT_INCREASE 4, DEFAULT_INCREASE_MIN_UTILISATION 0.8,
\* DEFAULT_INCREASE_MIN_GRADIENT 0.9; f64::clamp asserts min <= max; approx()
\* drops the fraction.
GradientApply(c, sample) ==
    IF ExpSmoothedPanics(c.long_window_latency, sample.latency)
    THEN Panic(c)
    ELSE
    LET sampled  == ExpSmoothedSample(c.long_window_latency, sample.latency)
        long     == sampled.value
        window   == IF long > 2 * sample.latency
                    THEN [sampled EXCEPT !.value = MulF64(long, 95, 100)]
                    ELSE sampled
        old_limit == c.limit_f
        gradient == Clamp((2 * 1000 * long) \div sample.latency, 500, 1000)
        increase == IF /\ sample.in_flight * 1000 * 10 > 8 * old_limit
                       /\ 2 * long * 10 > 9 * sample.latency
                    THEN 4000 ELSE 0
        applied  == (old_limit * gradient) \div 1000 + increase
        smoothed == (old_limit * 800 + applied * 200) \div 1000
        new_limit == Clamp(smoothed, c.min_limit * 1000, c.max_limit * 1000)
        rounded_limit == new_limit \div 1000
    IN  IF c.min_limit > c.max_limit
        THEN Panic([c EXCEPT !.long_window_latency = window])
        ELSE Result([c EXCEPT !.long_window_latency = window,
                              !.limit_f = new_limit,
                              !.limit = rounded_limit], rounded_limit)

\* A floor that lets through every latency but zero.
GradientUpdateZeroOnly(c, sample) ==
    IF sample.latency = 0
    THEN Result(c, c.limit)
    ELSE GradientApply(c, sample)

GradientUpdate(c, sample) ==
    IF sample.latency < MIN_SAMPLE_LATENCY
    THEN Result(c, c.limit)
    ELSE GradientApply(c, sample)

\* usize::ilog10
RECURSIVE ILog10(_)
ILog10(l) == IF l < 10 THEN 0 ELSE 1 + ILog10(l \div 10)

\* log10(limit).max(1.0) in thousandths: 1 up to limit 10; beyond, the
\* logarithm is taken down to a whole number.
Log10Max1(l) == IF l <= 10 THEN 1000 ELSE 1000 * ILog10(l)

\* A Vegas update that raises the limit whatever the utilisation.
VegasApplyAnyUtilisation(c, sample) ==
    LET base_latency == IF sample.latency < c.base_latency
                        THEN sample.latency ELSE c.base_latency
        limit_     == c.limit
        queued     == sample.in_flight * (sample.latency - base_latency) * 1000
        alpha      == 3 * Log10Max1(limit_) * sample.latency
        beta       == 6 * Log10Max1(limit_) * sample.latency
        increment  == IF ILog10(limit_) > 1 THEN ILog10(limit_) ELSE 1
        next == IF sample.outcome = "Overload"
                THEN MultiplicativeDecrease(limit_, 9)
                ELSE IF queued > beta
                THEN limit_ - increment
                ELSE IF queued < alpha
                THEN limit_ + increment
                ELSE limit_
        clamped == Clamp(next, c.min_limit, c.max_limit)
    IN  Result([c EXCEPT !.base_latency = base_latency,
                         !.limit = clamped], clamped)

\* Vegas::update.  estimated_queued_jobs = in_flight / latency *
\* (latency - base_latency) is compared with alpha = 3 log10 and
\* beta = 6 log10 after multiplying both sides by 1000 latency.
\* DEFAULT_DECREASE_FACTOR 0.9, DEFAULT_INCREASE_MIN_UTILISATION 0.8.
VegasApply(c, sample) ==
    LET base_latency == IF sample.latency < c.base_latency
                        THEN sample.latency ELSE c.base_latency
        limit_     == c.limit
        queued     == sample.in_flight * (sample.latency - base_latency) * 1000
        alpha      == 3 * Log10Max1(limit_) * sample.latency
        beta       == 6 * Log10Max1(limit_) * sample.latency
        increment  == IF ILog10(limit_) > 1 THEN ILog10(limit_) ELSE 1
        next == IF sample.outcome = "Overload"
                THEN MultiplicativeDecrease(limit_, 9)
                ELSE IF queued > beta
                THEN limit_ - increment
                ELSE IF queued < alpha /\ sample.in_flight * 10 >= 8 * limit_
                THEN limit_ + increment
                ELSE limit_
        clamped == Clamp(next, c.min_limit, c.max_limit)
    IN  IF c.min_limit > c.max_limit
        THEN Panic([c EXCEPT !.base_latency = base_latency])
        ELSE Result([c EXCEPT !.base_latency = base_latency,
                              !.limit = clamped], clamped)

VegasUpdate(c, sample) ==
    IF sample.latency < MIN_SAMPLE_LATENCY
    THEN Result(c, c.limit)
    ELSE VegasApply(c, sample)

\* LimitAlgorithm::update of the controller c
UpdateOf(c, sample) ==
    CASE c.kind = "Fixed"    -> FixedUpdate(c, sample)
      [] c.kind = "Aimd"     -> AimdUpdate(c, sample)
      [] c.kind = "Gradient" -> GradientUpdate(c, sample)
      [] c.kind = "Vegas"    -> VegasUpdate(c, sample)

\* The owner calls update(sample) and sees it return or panic.
CtlUpdate(sample) ==
    /\ ctl.kind # "None"
    /\ ~(call.op # "update" /\ call.panicked)
    /\ ctl.limit <= MaxCtlLimit
    /\ ctl.long_window_latency.smoothed < MaxSmoothed
    /\ LET r == UpdateOf(ctl, sample)
       IN  /\ ctl' = r.ctl
           /\ call' = [op |-> "update", sample |-> sample,
                       limit_before |-> ctl.limit, ret |-> r.ret,
                       panicked |-> r.panicked]
    /\ UNCHANGED <<gateVars, restVars, winVars>>

\* No limiter is involved: its variables stay as DefaultLimiter::new over
\* Fixed::new(1) leaves them.
CtlInit ==
    /\ Init
    /\ algo.kind = "Fixed"
    /\ algo.initial = 1

CtlNext ==
    \/ \E l \in LimitArgs : FixedNew(l)
    \/ \E k \in {"Aimd", "Gradient"}, initial, lo, hi \in LimitArgs :
           New(k, initial, lo, hi)
    \/ \E k \in {"Aimd", "Gradient", "Vegas"},
          initial \in LimitArgs \cup {DEFAULT_MAX_LIMIT + 1} :
           NewWithInitialLimit(k, initial)
    \/ \E max \in LimitArgs : WithMaxLimit(max)
    \/ \E factor \in FactorArgs : DecreaseFactor(factor)
    \/ \E increase \in 0..2 : IncreaseBy(increase)
    \/ \E min_util \in UtilisationArgs : WithMinUtilisationThreshold(min_util)
    \/ \E sample \in Samples : CtlUpdate(sample)

CtlSpec == CtlInit /\ [][CtlNext]_vars

\* ------------------------------------------------------------------ C11
Built == ctl.kind # "None" /\ ~(call.op # "update" /\ call.panicked)

\* C11: a controller built through the public constructors and builder
\* methods has min_limit <= limit() <= max_limit, before any update and after
\* every update.
C11_LimitWithinRange ==
    Built => ctl.min_limit <= ctl.limit /\ ctl.limit <= ctl.max_limit

\* ------------------------------------------------------------------ C12
\* The configuration a constructor or builder call is about to produce is
\* invalid: min_limit > max_limit, or the initial limit outside the range.
InvalidConfig(initial, lo, hi) == lo > hi \/ initial < lo \/ initial > hi

C12_ConstructionStep ==
    /\ \A k \in {"Aimd", "Gradient"}, initial, lo, hi \in LimitArgs :
           New(k, initial, lo, hi) /\ InvalidConfig(initial, lo, hi)
               => call'.panicked
    /\ \A k \in {"Aimd", "Gradient", "Vegas"},
          initial \in LimitArgs \cup {DEFAULT_MAX_LIMIT + 1} :
           /\ NewWithInitialLimit(k, initial)
           /\ InvalidConfig(initial, DEFAULT_MIN_LIMIT, DEFAULT_MAX_LIMIT)
           => call'.panicked
    /\ \A max \in LimitArgs :
           WithMaxLimit(max) /\ InvalidConfig(ctl.limit, ctl.min_limit, max)
               => call'.panicked

\* C12: every constructor and builder call that would leave the initial
\* limit outside [min_limit, max_limit], or min_limit > max_limit, fails.
C12_InvalidConfigFails == [][C12_ConstructionStep]_vars

\* ------------------------------------------------------------------ C13
BelowFloor == call.op = "update" /\ call.sample.latency < MIN_SAMPLE_LATENCY

C13_BelowFloorStep ==
    /\ call'.op = "update"
    /\ call'.sample.latency < MIN_SAMPLE_LATENCY
    /\ ctl.kind \in {"Fixed", "Gradient", "Vegas"}
    => ctl' = ctl

C14_UpdateNeverFails ==
    /\ call.op = "update"
    /\ call.sample.latency >= MIN_SAMPLE_LATENCY
    /\ ctl.min_limit <= ctl.max_limit
    => ~call.panicked

\* ------------------------------------------------------------------ C15
AimdUpdated(outcome) ==
    /\ call.op = "update"
    /\ ctl.kind = "Aimd"
    /\ call.sample.outcome = outcome

\* C15: an Aimd update with outcome Success sets the limit to
\* clamp(limit + increase_by, min, max) when in_flight / limit is above
\* min_utilisation_threshold, and leaves it unchanged otherwise (clamp is
\* defined for min <= max).
C15_AimdSuccess ==
    AimdUpdated("Success") =>
        LET l == call.limit_before
        IN  IF call.sample.in_flight * 10 > ctl.min_utilisation_threshold * l
            THEN ctl.min_limit <= ctl.max_limit
                 => /\ ~call.panicked
                    /\ ctl.limit = Clamp(l + ctl.increase_by, ctl.min_limit,
                                         ctl.max_limit)
                    /\ call.ret = ctl.limit
            ELSE /\ ~call.panicked
                 /\ ctl.limit = l
                 /\ call.ret = l

\* A Success sample at high utilisation has raised the limit by an
\* increase_by of 2, below the maximum.
C15_Witness ==
    /\ AimdUpdated("Success")
    /\ ctl.increase_by = 2
    /\ ctl.limit = call.limit_before + 2
    /\ ctl.limit < ctl.max_limit

\* ------------------------------------------------------------------ C16
\* C16: an Aimd update with outcome Overload sets the limit to
\* clamp(floor(limit * decrease_factor), min, max): strictly lower when the
\* limit was above min_limit, min_limit when it was at min_limit.
C16_AimdOverload ==
    AimdUpdated("Overload") /\ ctl.min_limit <= ctl.max_limit =>
        LET l == call.limit_before
        IN  /\ ~call.panicked
            /\ \E x \in 0..l :
                   /\ 10 * x <= l * ctl.decrease_factor
                   /\ l * ctl.decrease_factor < 10 * (x + 1)
                   /\ ctl.limit = Clamp(x, ctl.min_limit, ctl.max_limit)
            /\ call.ret = ctl.limit
            /\ l > ctl.min_limit => ctl.limit < l
            /\ l = ctl.min_limit => ctl.limit = ctl.min_limit

\* An Overload sample has taken a limit of 2 to 1 with the factor 0.9.
C16_Witness ==
    /\ AimdUpdated("Overload")
    /\ ctl.decrease_factor = 9
    /\ call.limit_before = 2
    /\ ctl.limit = 1

\* ------------------------------------------------------------------ C17
C17_BaselineStep ==
    /\ call'.op = "update"
    /\ ctl.kind = "Vegas"
    /\ call'.sample.latency >= MIN_SAMPLE_LATENCY
    /\ call'.sample.latency < ctl.base_latency
    => /\ ~call'.panicked
       /\ ctl'.base_latency = call'.sample.latency
       /\ ctl'.limit = ctl.limit
       /\ call'.ret = ctl.limit

\* C17: a Vegas update with a sample whose latency is below the current
\* base_latency (the first sample included) records the new baseline and
\* leaves the limit unchanged, for any in_flight and outcome.
C17_VegasBaselineKeepsLimit == [][C17_BaselineStep]_vars

\* ------------------------------------------------------- aggregation.rs
\* A merge in which the later outcome wins.
OverloadedOrLast(self, other) == other

\* Outcome::overloaded_or
OverloadedOr(self, other) ==
    IF self = "Success" /\ other = "Overload" THEN "Overload" ELSE self

\* Average::default
AverageDefault ==
    [latency_sum |-> 0, in_flight_sum |-> 0, overload |-> "Success",
     samples |-> 0]

\* Duration::div_f64 by a whole number: the quotient in seconds goes through
\* Duration::from_secs_f64, which rounds to the nearest nanosecond.
DivF64(d, n) == (2 * d + n) \div (2 * n)

\* A sample that forgets the latencies before it.
AverageSampleLastLatency(a, sample) ==
    LET self == [latency_sum   |-> sample.latency,
                 in_flight_sum |-> a.in_flight_sum + sample.in_flight,
                 overload      |-> OverloadedOr(a.overload, sample.outcome),
                 samples       |-> a.samples + 1]
    IN  [aggregator |-> self,
         sample |-> [in_flight |-> self.in_flight_sum \div self.samples,
                     latency   |-> DivF64(self.latency_sum, self.samples),
                     outcome   |-> self.overload]]

\* Average::sample: the aggregator after adding the sample, and the
\* aggregated sample it returns.
AverageSample(a, sample) ==
    LET self == [latency_sum   |-> a.latency_sum + sample.latency,
                 in_flight_sum |-> a.in_flight_sum + sample.in_flight,
                 overload      |-> OverloadedOr(a.overload, sample.outcome),
                 samples       |-> a.samples + 1]
    IN  [aggregator |-> self,
         sample |-> [in_flight |-> self.in_flight_sum \div self.samples,
                     latency   |-> DivF64(self.latency_sum, self.samples),
                     outcome   |-> self.overload]]

\* A reset that keeps what the aggregator has gathered.
AverageResetKeeps(a) == a

\* Average::reset
AverageReset(a) == AverageDefault

\* ---------------------------------------------------- limits/windowed.rs
DEFAULT_MIN_SAMPLES == 10
DEFAULT_MIN_WINDOW  == 1000          \* Duration::from_micros(1)
DEFAULT_MAX_WINDOW  == 1000000000    \* Duration::from_secs(1)

\* Arguments of the builders and samples of the update calls.
MinSamplesArgs == 0..2
WindowArgs     == {0, MIN_SAMPLE_LATENCY, 2 * MIN_SAMPLE_LATENCY}
WinLatencies   == {MIN_SAMPLE_LATENCY - 1, MIN_SAMPLE_LATENCY,
                   2 * MIN_SAMPLE_LATENCY}
WinSamples     == [latency : WinLatencies, in_flight : {MaxInFlight},
                   outcome : Outcomes]
WinInners      == {Controller("Aimd", 2, 1, MaxLimit),
                   Controller("Vegas", 2, 1, DEFAULT_MAX_LIMIT)}

\* Windowed::new(inner, Average::default()).  lock is the queue of the
\* window's Mutex: its head holds the window.
WindowedNew(inner) ==
    /\ win = NoWin
    /\ ctl = NoCtl
    /\ ctl' = inner
    /\ win' = [kind |-> "Windowed",
               min_window |-> DEFAULT_MIN_WINDOW,
               max_window |-> DEFAULT_MAX_WINDOW,
               min_samples |-> DEFAULT_MIN_SAMPLES,
               min_latency_threshold |-> MIN_SAMPLE_LATENCY,
               start |-> now,
               duration |-> DEFAULT_MIN_WINDOW,
               aggregator |-> AverageDefault,
               min_latency |-> DurationMax,
               lock |-> <<>>]
    /\ UNCHANGED <<gateVars, restVars, call, upd, now, hist>>

\* The builders take the wrapper by value, before any update.
WinBuilding ==
    /\ win.kind = "Windowed"
    /\ hist.calls = 0

\* Windowed::with_min_samples; a failed assertion leaves no wrapper.
WithMinSamples(samples) ==
    /\ WinBuilding
    /\ win' = IF samples > 0
              THEN [win EXCEPT !.min_samples = samples]
              ELSE [kind |-> "Failed"]
    /\ UNCHANGED <<gateVars, restVars, ctlVars, upd, now, hist>>

\* Windowed::with_min_window
WithMinWindow(min) ==
    /\ WinBuilding
    /\ win' = [win EXCEPT !.min_window = min]
    /\ UNCHANGED <<gateVars, restVars, ctlVars, upd, now, hist>>

\* Windowed::with_max_window
WithMaxWindow(max) ==
    /\ WinBuilding
    /\ win' = [win EXCEPT !.max_window = max]
    /\ UNCHANGED <<gateVars, restVars, ctlVars, upd, now, hist>>

\* An update that queues every sample for the window, whatever its latency.
WinUpdateMergesAll(c, sample) ==
    /\ win.kind = "Windowed"
    /\ upd[c].pc \in {"idle", "done", "panicked"}
    /\ hist.calls < MaxCalls
    /\ LET id == hist.calls + 1
           u  == [NoUpd EXCEPT !.sample = sample, !.id = id]
       IN  /\ hist' = [hist EXCEPT !.calls = id]
           /\ upd' = [upd EXCEPT ![c] = [u EXCEPT !.pc = "lock"]]
           /\ win' = [win EXCEPT !.lock = Append(@, c)]
    /\ UNCHANGED <<gateVars, restVars, ctlVars, now>>

\* Windowed::update up to `self.window.lock()`: a sample below the
\* threshold returns inner.limit(); any other queues for the window.
WinUpdate(c, sample) ==
    /\ win.kind = "Windowed"
    /\ upd[c].pc \in {"idle", "done", "panicked"}
    /\ hist.calls < MaxCalls
    /\ LET id == hist.calls + 1
           u  == [NoUpd EXCEPT !.sample = sample, !.id = id]
       IN  /\ hist' = [hist EXCEPT !.calls = id]
           /\ IF sample.latency < win.min_latency_threshold
              THEN /\ upd' = [upd EXCEPT ![c] = [u EXCEPT !.pc = "done",
                                                          !.ret = ctl.limit]]
                   /\ UNCHANGED win
              ELSE /\ upd' = [upd EXCEPT ![c] = [u EXCEPT !.pc = "lock"]]
                   /\ win' = [win EXCEPT !.lock = Append(@, c)]
    /\ UNCHANGED <<gateVars, restVars, ctlVars, now>>

\* A window closing on either condition alone.
WindowRollsOverEither(w, size, elapsed) ==
    size >= w.min_samples \/ elapsed >= w.duration

\* The roll-over condition of Windowed::update
WindowRollsOver(w, size, elapsed) ==
    size >= w.min_samples /\ elapsed >= w.duration

\* Windowed::update with the window locked: min_latency, aggregator.sample
\* and the roll-over condition; without a roll-over it returns
\* inner.limit() and drops the guard.
WinMerge(c) ==
    /\ upd[c].pc = "lock"
    /\ Head(win.lock) = c
    /\ LET sample  == upd[c].sample
           a       == AverageSample(win.aggregator, sample)
           size    == a.aggregator.samples
           elapsed == now - win.start
           window  == [win EXCEPT
                         !.min_latency = IF sample.latency < @
                                         THEN sample.latency ELSE @,
                         !.aggregator = a.aggregator]
           u       == [upd[c] EXCEPT !.agg_sample = a.sample]
       IN  /\ hist' = [hist EXCEPT !.window =
                          @ \cup {[id |-> upd[c].id,
                                   latency |-> sample.latency]}]
           /\ IF WindowRollsOver(win, size, elapsed)
              THEN /\ win' = window
                   /\ upd' = [upd EXCEPT ![c] = [u EXCEPT !.pc = "reset"]]
              ELSE /\ win' = [window EXCEPT !.lock = Tail(@)]
                   /\ upd' = [upd EXCEPT ![c] = [u EXCEPT !.pc = "done",
                                                          !.ret = ctl.limit]]
    /\ UNCHANGED <<gateVars, restVars, ctlVars, now>>

\* Window::reset at the instant t, in the order of its statements;
\* Duration::clamp panics when min > max, before duration is assigned.
WindowReset(w, t) ==
    LET self == [w EXCEPT !.min_latency = DurationMax,
                          !.aggregator = AverageReset(@),
                          !.start = t]
    IN  IF w.min_window > w.max_window
        THEN [window |-> self, panicked |-> TRUE]
        ELSE [window |-> [self EXCEPT !.duration =
                            Clamp(self.min_latency, w.min_window,
                                  w.max_window) * 2],
              panicked |-> FALSE]

\* Windowed::update at `window.reset(&self.window_bounds)`.  The samples
\* of the window that closes go with the caller; the open window holds
\* what the aggregator still holds.
WinReset(c) ==
    /\ upd[c].pc = "reset"
    /\ LET r == WindowReset(win, now)
       IN  /\ win' = IF r.panicked
                     THEN [r.window EXCEPT !.lock = Tail(@)]
                     ELSE r.window
           /\ upd' = [upd EXCEPT ![c] =
                        [@ EXCEPT !.pc = IF r.panicked THEN "panicked"
                                         ELSE "forward",
                                  !.window = hist.window]]
           /\ hist' = [hist EXCEPT !.window =
                          IF r.window.aggregator.samples = 0 THEN {} ELSE @]
    /\ UNCHANGED <<gateVars, restVars, ctlVars, now>>

\* Windowed::update at `self.inner.update(agg_sample).await`, then the
\* guard is dropped.
WinForward(c) ==
    /\ upd[c].pc = "forward"
    /\ LET r == UpdateOf(ctl, upd[c].agg_sample)
       IN  /\ ctl' = r.ctl
           /\ call' = [op |-> "update", sample |-> upd[c].agg_sample,
                       limit_before |-> ctl.limit, ret |-> r.ret,
                       panicked |-> r.panicked]
           /\ upd' = [upd EXCEPT ![c] =
                        [@ EXCEPT !.pc = IF r.panicked THEN "panicked"
                                         ELSE "done",
                                  !.forwarded = TRUE,
                                  !.ret = r.ret]]
    /\ win' = [win EXCEPT !.lock = Tail(@)]
    /\ hist' = [hist EXCEPT !.forwards = Append(@, upd[c].window)]
    /\ UNCHANGED <<gateVars, restVars, now>>

\* A microsecond passes.
WinTick ==
    /\ win.kind = "Windowed"
    /\ now < MaxNow * MIN_SAMPLE_LATENCY
    /\ now' = now + MIN_SAMPLE_LATENCY
    /\ UNCHANGED <<gateVars, restVars, ctlVars, win, upd, hist>>

WinInit == CtlInit

WinNext ==
    \/ \E inner \in WinInners : WindowedNew(inner)
    \/ \E samples \in MinSamplesArgs : WithMinSamples(samples)
    \/ \E min \in WindowArgs : WithMinWindow(min)
    \/ \E max \in WindowArgs : WithMaxWindow(max)
    \/ \E c \in Callers, sample \in WinSamples : WinUpdate(c, sample)
    \/ \E c \in Callers : WinMerge(c)
    \/ \E c \in Callers : WinReset(c)
    \/ \E c \in Callers : WinForward(c)
    \/ WinTick

WinSpec == WinInit /\ [][WinNext]_vars

\* ------------------------------------------------------------------ C18
\* One step of caller c's Windowed::update, against the roll-over rule.
C18_Step(c) ==
    LET size    == win'.aggregator.samples
        elapsed == now - win.start
        due     == size >= win.min_samples /\ elapsed >= win.duration
    IN  /\ upd[c].pc = "lock" /\ upd'[c].pc # "lock"
           => IF due
              THEN upd'[c].pc = "reset"
              ELSE /\ upd'[c].pc = "done"
                   /\ upd'[c].ret = ctl.limit
        /\ upd[c].pc = "reset" /\ upd'[c].pc # "reset"
           /\ win.min_window <= win.max_window
           => upd'[c].pc = "forward"
        /\ upd[c].pc = "forward" /\ upd'[c].pc # "forward"
           => /\ hist'.forwards = Append(hist.forwards, upd[c].window)
              /\ Cardinality(upd[c].window) >= win.min_samples
              /\ call'.op = "update"
              /\ call'.sample = upd[c].agg_sample
              /\ upd'[c].ret = call'.ret
        /\ upd[c].pc # "forward" /\ upd'[c] # upd[c]
           => /\ ctl' = ctl
              /\ hist'.forwards = hist.forwards
        /\ upd'[c].id # upd[c].id /\ upd'[c].pc = "done"
           => /\ upd'[c].sample.latency < win.min_latency_threshold
              /\ upd'[c].ret = ctl.limit

\* C18: Windowed.update forwards the aggregated sample to the wrapped
\* controller exactly when, after merging the raw sample, sample_size() >=
\* min_samples and the time since the window's start >= its duration; every
\* other call returns the wrapped controller's current limit and gives it
\* no update; no aggregate of fewer than min_samples samples is forwarded.
C18_ForwardsExactlyAtRollOver == [][\A c \in Callers : C18_Step(c)]_vars

\* With min_samples = 2, the third call has forwarded the aggregate of all
\* three samples: the second met the count but not the duration.
C18_Witness ==
    /\ win.kind = "Windowed"
    /\ win.min_samples = 2
    /\ hist.calls = 3
    /\ hist.forwards # <<>>
    /\ \A i \in 1..Len(hist.forwards) : Cardinality(hist.forwards[i]) = 3

\* ------------------------------------------------------------------ C19
\* The windows so far: those forwarded, those closed by a caller that is
\* about to forward, and the open one.
Closing == {c \in Callers : upd[c].pc = "forward"}

WindowsOf(id) ==
    Cardinality({i \in 1..Len(hist.forwards) :
                    \E s \in hist.forwards[i] : s.id = id})
    + Cardinality({c \in Closing : \E s \in upd[c].window : s.id = id})
    + (IF \E s \in hist.window : s.id = id THEN 1 ELSE 0)

\* C19: under concurrent Windowed.update calls every accepted raw sample
\* is counted in exactly one window, so in at most one forwarded aggregate,
\* and the aggregator holds 0 samples right after each roll-over.  (With
\* min_window > max_window a roll-over panics in Window::reset and its
\* window is forwarded nowhere.)
C19_EachSampleInOneWindow ==
    win.kind = "Windowed" =>
        /\ \A id \in 1..hist.calls : WindowsOf(id) <= 1
        /\ \A c \in Callers :
               /\ win.min_window <= win.max_window
               /\ \/ upd[c].pc \in {"reset", "forward"}
                  \/ /\ upd[c].pc = "done"
                     /\ upd[c].sample.latency >= win.min_latency_threshold
               => WindowsOf(upd[c].id) = 1
        /\ win.aggregator.samples = Cardinality(hist.window)
        /\ Closing # {} => win.aggregator.samples = 0

\* One caller has rolled the window over for the second time while the
\* other waits for the window's lock with an accepted sample.
C19_Witness ==
    \E c, d \in Callers :
        /\ upd[c].pc = "forward"
        /\ upd[d].pc = "lock"
        /\ hist.forwards # <<>>
        /\ win.aggregator.samples = 0

\* ------------------------------------------------------------------ C20
\* The minimum latency among the samples of a window.
MinLatencyOf(window) ==
    CHOOSE m \in {s.latency : s \in window} :
        \A s \in window : m <= s.latency

\* C20: after each roll-over the next window duration is
\* 2 * clamp(m, min_window, max_window), m being the minimum latency among
\* the samples of the window that just closed (clamp is defined for
\* min_window <= max_window).
C20_NextWindowDuration ==
    \A c \in Callers :
        upd[c].pc = "forward" /\ win.min_window <= win.max_window
        => win.duration = 2 * Clamp(MinLatencyOf(upd[c].window),
                                    win.min_window, win.max_window)

\* ------------------------------------------------------------------ C21
\* A call of caller c that begins with a sample below the threshold.
C21_Step(c) ==
    /\ upd'[c].id # upd[c].id
    /\ upd'[c].sample.latency < win.min_latency_threshold
    => /\ upd'[c].pc = "done"
       /\ upd'[c].ret = ctl.limit
       /\ win'.aggregator = win.aggregator
       /\ win'.min_latency = win.min_latency
       /\ win' = win
       /\ ctl' = ctl
       /\ hist'.window = hist.window
       /\ hist'.forwards = hist.forwards

\* C21: Windowed.update with a sample whose latency is below
\* min_latency_threshold returns the wrapped controller's current limit and
\* leaves the aggregator's sample count, the window's minimum latency and
\* the wrapped controller unchanged.
C21_BelowThresholdDiscarded == [][\A c \in Callers : C21_Step(c)]_vars

\* A sample below the threshold has come back while the window, due to
\* roll over on its next sample, still holds the one sample before it.
C21_Witness ==
    \E c \in Callers :
        /\ upd[c].pc = "done"
        /\ upd[c].id = 2
        /\ hist.calls = 2
        /\ upd[c].sample.latency < win.min_latency_threshold
        /\ upd[c].sample.outcome = "Overload"
        /\ win.aggregator.samples = 1
        /\ win.min_samples = 2
        /\ now - win.start >= win.duration
        /\ upd[c].ret = ctl.limit

\* ------------------------------------------- aggregation.rs: Percentile
MaxAggSamples == 4    \* samples an aggregator takes between two resets
MaxAggRun     == 25   \* samples of one long run into a Percentile

\* Latencies, samples and percentiles (in hundredths) of the aggregators.
AggLatencies == {k * MIN_SAMPLE_LATENCY : k \in 1..MaxLatency}
AggSamples   == [latency : AggLatencies, in_flight : 1..MaxInFlight,
                 outcome : Outcomes]
PercentileArgs == {0, 1, 28, 50, 99, 100}

\* Percentile::default with the given percentile.  The BTreeMap is a
\* function of the latency; a latency without an entry has no samples.
PercentileDefault(percentile) ==
    [percentile  |-> percentile,
     overload    |-> "Success",
     num_samples |-> 0,
     samples     |-> [l \in AggLatencies |-> <<>>]]

\* The f64 a percentile of d hundredths is held as.  With the f64 in
\* [2^-t, 2^(1-t)) and M its 53-bit significand, r = 100 M - d 2^(52+t): the
\* f64 is d / 100 + r / (100 * 2^(52+t)).
F64Of(d) ==
    CASE d = 1  -> [r |-> 12, t |-> 7]
      [] d = 28 -> [r |-> 48, t |-> 2]
      [] d = 50 -> [r |-> 0,  t |-> 1]
      [] d = 99 -> [r |-> -8, t |-> 1]

RECURSIVE ILog2(_)
ILog2(k) == IF k < 2 THEN 0 ELSE 1 + ILog2(k \div 2)

\* (num_samples as f64 * percentile).ceil() for the percentile of d
\* hundredths and n below 200.  Where n d / 100 is no whole number the f64
\* product has the same ceiling.  Where it is the whole number k, the exact
\* product is k + n r / (100 * 2^(52+t)), and the f64 product is k unless
\* that excess is above half the spacing 2^(ILog2(k)-52) of the f64s at k.
F64MulCeil(n, d) ==
    LET f == F64Of(d)
        k == (n * d) \div 100
    IN  IF (n * d) % 100 # 0 THEN k + 1
        ELSE IF f.r <= 0 \/ k = 0 THEN k
        ELSE IF n * f.r <= 100 * 2^(ILog2(k) + f.t - 1) THEN k
        ELSE k + 1

\* Percentile::percentile_index for num_samples > 0:
\* ceil(num_samples as f64 * percentile) - 1
PercentileIndex(self) ==
    F64MulCeil(self.num_samples, self.percentile) - 1

\* self.samples.iter().flat_map(|(_, sample)| sample): the samples by
\* ascending latency, in insertion order within one latency.
RECURSIVE FlatMap(_, _)
FlatMap(samples, keys) ==
    IF keys = {} THEN <<>>
    ELSE LET k == CHOOSE x \in keys : \A y \in keys : x <= y
         IN  samples[k] \o FlatMap(samples, keys \ {k})

\* Percentile::sample: the aggregator after adding the sample, the sample
\* it returns, or the panic of `.expect("Sample should exist ...")`.
PercentileSample(p, sample) ==
    LET self == [p EXCEPT
                   !.overload = OverloadedOr(@, sample.outcome),
                   !.samples[sample.latency] = Append(@, sample),
                   !.num_samples = @ + 1]
        flat  == FlatMap(self.samples, AggLatencies)
        index == PercentileIndex(self)
    IN  IF index + 1 \in 1..Len(flat)
        THEN [aggregator |-> self,
              sample |-> [in_flight |-> flat[index + 1].in_flight,
                          latency   |-> flat[index + 1].latency,
                          outcome   |-> self.overload],
              panicked |-> FALSE]
        ELSE [aggregator |-> self, sample |-> NoSample, panicked |-> TRUE]

\* A reset that keeps the overload seen so far.
PercentileResetKeepsOverload(p) ==
    [PercentileDefault(p.percentile) EXCEPT !.overload = p.overload]

\* Percentile::reset
PercentileReset(p) == PercentileDefault(p.percentile)

\* ------------------------------------------ aggregation.rs: Aggregator
\* Average::default(), Percentile::default()
AggDefault(kind) ==
    /\ agg = NoAgg
    /\ agg' = [kind |-> kind,
               self |-> IF kind = "Average" THEN AverageDefault
                        ELSE PercentileDefault(50)]
    /\ alog' = [NoALog EXCEPT !.op = "default"]
    /\ UNCHANGED <<gateVars, ctlVars, winVars, partVars, rd, au, gr>>

\* Percentile::new(percentile); its assertion leaves no aggregator.
PercentileNew(percentile) ==
    /\ agg = NoAgg
    /\ IF percentile > 0 /\ percentile < 100
       THEN /\ agg' = [kind |-> "Percentile",
                       self |-> PercentileDefault(percentile)]
            /\ alog' = [NoALog EXCEPT !.op = "new"]
       ELSE /\ agg' = [kind |-> "Failed"]
            /\ alog' = [NoALog EXCEPT !.op = "new", !.panicked = TRUE]
    /\ UNCHANGED <<gateVars, ctlVars, winVars, partVars, rd, au, gr>>

IsAggregator == agg.kind \in {"Average", "Percentile"}

\* Aggregator::sample
SampleOf(a, sample) ==
    IF a.kind = "Average"
    THEN LET r == AverageSample(a.self, sample)
         IN  [aggregator |-> r.aggregator, sample |-> r.sample,
              panicked |-> FALSE]
    ELSE PercentileSample(a.self, sample)

\* Aggregator::sample_size
SampleSize(a) ==
    IF a.kind = "Average" THEN a.self.samples ELSE a.self.num_samples

\* Aggregator::reset
ResetOf(a) ==
    IF a.kind = "Average" THEN AverageReset(a.self)
    ELSE PercentileReset(a.self)

\* The owner adds a sample.
AggSample(sample) ==
    /\ IsAggregator
    /\ ~alog.panicked
    /\ Len(alog.since) < MaxAggSamples
    /\ LET r == SampleOf(agg, sample)
       IN  /\ agg' = [agg EXCEPT !.self = r.aggregator]
           /\ alog' = [alog EXCEPT !.op = "sample",
                                   !.since = Append(@, sample),
                                   !.out = r.sample,
                                   !.panicked = r.panicked]
    /\ UNCHANGED <<gateVars, ctlVars, winVars, partVars, rd, au, gr>>

\* The owner resets the aggregator; dropped tells how many samples went.
AggReset ==
    /\ IsAggregator
    /\ ~alog.panicked
    /\ agg' = [agg EXCEPT !.self = ResetOf(agg)]
    /\ alog' = [NoALog EXCEPT !.op = "reset", !.dropped = Len(alog.since)]
    /\ UNCHANGED <<gateVars, ctlVars, winVars, partVars, rd, au, gr>>

\* The owner adds the next sample of a long run into a Percentile: no
\* latency above the one before it, in_flight going round, all Success.
AggSampleRun(latency) ==
    /\ agg.kind = "Percentile"
    /\ ~alog.panicked
    /\ Len(alog.since) < MaxAggRun
    /\ alog.since # <<>> => latency <= alog.since[Len(alog.since)].latency
    /\ LET sample == [latency   |-> latency,
                      in_flight |-> 1 + (Len(alog.since) % MaxInFlight),
                      outcome   |-> "Success"]
           r == SampleOf(agg, sample)
       IN  /\ agg' = [agg EXCEPT !.self = r.aggregator]
           /\ alog' = [alog EXCEPT !.op = "sample",
                                   !.since = Append(@, sample),
                                   !.out = r.sample,
                                   !.panicked = r.panicked]
    /\ UNCHANGED <<gateVars, ctlVars, winVars, partVars, rd, au, gr>>

AggInit == CtlInit

AggNext ==
    \/ \E kind \in {"Average", "Percentile"} : AggDefault(kind)
    \/ \E percentile \in PercentileArgs : PercentileNew(percentile)
    \/ \E sample \in AggSamples : AggSample(sample)
    \/ AggReset

AggSpec == AggInit /\ [][AggNext]_vars

\* Long runs of samples into one Percentile.
RunNext ==
    \/ \E percentile \in PercentileArgs : PercentileNew(percentile)
    \/ \E latency \in AggLatencies : AggSampleRun(latency)

RunSpec == AggInit /\ [][RunNext]_vars

\* ------------------------------------------------------------------ C22
Sampled(kind) ==
    /\ agg.kind = kind
    /\ alog.op = "sample"
    /\ ~alog.panicked

\* C22: for Average and Percentile the outcome of the aggregate returned by
\* sample() is Overload iff some sample added since construction or the
\* last reset had outcome Overload, in whatever order they were added.
C22_OverloadIffAnyOverload ==
    Sampled("Average") \/ Sampled("Percentile") =>
        (alog.out.outcome = "Overload"
         <=> \E i \in 1..Len(alog.since) : alog.since[i].outcome = "Overload")

\* A Percentile that met its Overload first and two Success samples later
\* still reports Overload, after a reset that dropped samples.
C22_Witness ==
    /\ Sampled("Percentile")
    /\ alog.dropped > 0
    /\ Len(alog.since) = 3
    /\ alog.since[1].outcome = "Overload"
    /\ alog.since[2].outcome = "Success"
    /\ alog.since[3].outcome = "Success"
    /\ alog.out.outcome = "Overload"

\* ------------------------------------------------------------------ C23
\* The place of the i-th sample added in ascending latency order, insertion
\* order among equal latencies, counted from 0.
RankOf(i) ==
    Cardinality({j \in 1..Len(alog.since) :
                    \/ alog.since[j].latency < alog.since[i].latency
                    \/ /\ alog.since[j].latency = alog.since[i].latency
                       /\ j < i})

\* C23: Percentile(p) after N samples since the last reset reports the
\* latency and the in_flight of the sample at index ceil(N * p) - 1 in
\* ascending latency order (insertion order among equal latencies); the
\* index is within [0, N - 1], so sample() always finds it.
C23_PercentileSample ==
    agg.kind = "Percentile" /\ alog.op = "sample" =>
        LET N == Len(alog.since)
            p == agg.self.percentile
        IN  /\ ~alog.panicked
            /\ SampleSize(agg) = N
            /\ \E index \in 0..(N - 1) :
                   /\ 100 * index < N * p
                   /\ N * p <= 100 * (index + 1)
                   /\ \E i \in 1..N :
                          /\ RankOf(i) = index
                          /\ alog.out.latency = alog.since[i].latency
                          /\ alog.out.in_flight = alog.since[i].in_flight

\* ------------------------------------------------------------------ C24
RECURSIVE SumOf(_, _)
SumOf(seq, field) ==
    IF seq = <<>> THEN 0
    ELSE (IF field = "latency" THEN Head(seq).latency
          ELSE Head(seq).in_flight) + SumOf(Tail(seq), field)

\* C24: Average after N samples since the last reset reports the mean of
\* the N latencies (less than a nanosecond off), the mean of the N in_flight values
\* truncated to an integer, and sample_size() = N.
C24_AverageSample ==
    Sampled("Average") =>
        LET N       == Len(alog.since)
            latency == SumOf(alog.since, "latency")
            flights == SumOf(alog.since, "in_flight")
        IN  /\ SampleSize(agg) = N
            /\ N * alog.out.latency < latency + N
            /\ N * alog.out.latency > latency - N
            /\ N * alog.out.in_flight <= flights
            /\ flights < N * (alog.out.in_flight + 1)

\* Three samples whose latencies have no whole mean and whose in_flight
\* mean is truncated.
C24_Witness ==
    /\ Sampled("Average")
    /\ Len(alog.since) = 3
    /\ SumOf(alog.since, "latency") = 5 * MIN_SAMPLE_LATENCY
    /\ SumOf(alog.since, "in_flight") = 5
    /\ alog.out.in_flight = 1

\* ------------------------------------------------------------------ C25
\* The aggregator as constructed, with the configuration of a.
FreshAs(a) ==
    IF a.kind = "Average" THEN AverageDefault
    ELSE PercentileDefault(a.self.percentile)

\* C25: for both aggregators reset() gives back the state of a freshly
\* constructed aggregator of the same configuration (Percentile keeps its
\* percentile): sample_size() = 0, and the next sample(s) returns exactly
\* s, whatever was sampled before.
C25_ResetIsFresh ==
    IsAggregator =>
        /\ alog.op = "reset"
           => /\ agg.self = FreshAs(agg)
              /\ SampleSize(agg) = 0
        /\ alog.op = "sample" /\ Len(alog.since) = 1
           => /\ ~alog.panicked
              /\ alog.out = alog.since[1]
              /\ SampleSize(agg) = 1

\* After a reset that dropped four samples, a Percentile(0.99) has
\* returned a Success sample as it came.
C25_Witness ==
    /\ Sampled("Percentile")
    /\ agg.self.percentile = 99
    /\ alog.dropped = MaxAggSamples
    /\ Len(alog.since) = 1
    /\ alog.out = alog.since[1]
    /\ alog.out.outcome = "Success"

\* ======================================================== partitions
\* create_static_partitions over a Fixed limit: a Scheduler, one
\* PartitionState per weight and one shared DefaultLimiter.  The callers
\* acquire through any partition and the application drops the tokens it
\* holds; every dropped token spawns a reuse_permit task.

\* A step on the partitions touches nothing else.
PartOnly == UNCHANGED <<gateVars, ctlVars, winVars, aggVars, rd, au, gr>>

\* The weight lists given to create_static_partitions.  Their fractions
\* weight / total are 1/2, 1/4 and 3/4, which f64 holds exactly.
WeightLists == {<<1, 1>>, <<1, 3>>}

RECURSIVE SumSeq(_)
SumSeq(q) == IF q = <<>> THEN 0 ELSE Head(q) + SumSeq(Tail(q))

\* usize arithmetic.  usize is 64 bits wide; the model's integers are 32
\* bits wide, so the model wraps at 2^30.  Every counter of the model is at
\* most MaxTotalLimit, so a wrapped value is far above every value it is
\* compared with, as it is at 2^64.
USIZE == 2^30

Partitions == IF sched.built THEN 1..Len(sched.weights) ELSE {}

\* fractional_limit(limit, fraction) for fraction = weights[i] / total
FractionalLimit(total_limit, i) ==
    LET total == SumSeq(sched.weights)
    IN  (total_limit * sched.weights[i] + total - 1) \div total

\* PartitionState::limit
PartitionLimit(i) == FractionalLimit(sched.limit, i)

\* PartitionState::spare.  partition_limit - in_flight is a usize
\* subtraction: below zero it panics where the build checks overflow and
\* wraps where it does not.  buffer is ceil(partition_limit as f64 * 0.1),
\* which is 1 for every partition_limit in 1..9.
PartitionSpare(i) ==
    LET partition_limit == PartitionLimit(i)
        buffer == (partition_limit + 9) \div 10
        diff == partition_limit - sched.in_flight_of[i]
        wrapped == IF diff < 0 THEN USIZE + diff ELSE diff
    IN  [panicked |-> diff < 0 /\ sched.overflow_checks,
         spare |-> IF wrapped > buffer THEN wrapped - buffer ELSE 0]

\* Scheduler::spare: the fold total + partition.spare over the partitions
\* up to n, in order.
RECURSIVE SpareUpTo(_)
SpareUpTo(n) ==
    IF n = 0 THEN [panicked |-> FALSE, spare |-> 0]
    ELSE LET before == SpareUpTo(n - 1)
             this == PartitionSpare(n)
             sum == before.spare + this.spare
         IN  IF before.panicked THEN before
             ELSE [panicked |-> this.panicked
                                \/ (sum >= USIZE /\ sched.overflow_checks),
                   spare |-> sum % USIZE]

SchedulerSpare == SpareUpTo(Len(sched.weights))

\* The admission test of try_acquire and acquire_timeout
\*   state.in_flight() < state.limit(total_limit)
\*       || self.scheduler.spare(total_limit) > 0
\* "pool": go on to the shared limiter; "else": the other branch; "panic".
Admission(i) ==
    IF sched.in_flight_of[i] < PartitionLimit(i) THEN "pool"
    ELSE IF SchedulerSpare.panicked THEN "panic"
    ELSE IF SchedulerSpare.spare > 0 THEN "pool"
    ELSE "else"

\* create_static_partitions(Fixed::new(limit), weights), on a build with or
\* without overflow checks.
\* The constructor's only check is assert!(!weights.is_empty()); a failed
\* assertion panics and nothing is built.
ConstructionPanicked == [built |-> FALSE, panicked |-> TRUE]

CreateStaticPartitions(total_limit, weights, overflow_checks) ==
    /\ ~sched.built
    /\ IF weights = <<>>
       THEN /\ sched' = ConstructionPanicked
            /\ UNCHANGED held
       ELSE /\ sched' = [built |-> TRUE,
                         overflow_checks |-> overflow_checks,
                         weights |-> weights,
                         limit |-> total_limit,
                         permits |-> total_limit,
                         in_flight |-> 0,
                         in_flight_of |-> [i \in 1..Len(weights) |-> 0],
                         waiters |-> <<>>,
                         lock |-> 0,
                         lockq |-> <<>>]
            /\ held' = [i \in 1..Len(weights) |-> 0]
    /\ UNCHANGED <<pcall, reuse>>
    /\ PartOnly

\* A caller whose call panicked: its task is gone.
CallPanicked == [pc |-> "panicked", index |-> 0]

\* The callers in line for the write lock on the waiter list.
WritersOf == {c \in Callers : pcall[c].pc = "write"}

\* PartitionedLimiter::try_acquire on partition i, up to the admission
\* test; its else branch is on_rejection (nothing for Fixed) and None.
PartTryAcquire(c, i) ==
    /\ pcall[c].pc = "idle"
    /\ LET a == Admission(i)
       IN  pcall' = [pcall EXCEPT ![c] =
               CASE a = "pool" -> [pc |-> "pool", index |-> i]
                 [] a = "else" -> NoPCall
                 [] a = "panic" -> CallPanicked]
    /\ UNCHANGED <<sched, reuse, held>>
    /\ PartOnly

\* PartitionedLimiter::acquire_timeout on partition i, up to the admission
\* test; its else branch makes the oneshot channel and asks for the write
\* lock on the waiter list.
PartAcquireTimeout(c, i) ==
    /\ pcall[c].pc = "idle"
    /\ Len(sched.waiters) + Cardinality(WritersOf) < MaxWaiters
    /\ LET a == Admission(i)
       IN  /\ pcall' = [pcall EXCEPT ![c] =
                  CASE a = "pool" -> [pc |-> "timeout_pool", index |-> i]
                    [] a = "else" -> [pc |-> "write", index |-> i]
                    [] a = "panic" -> CallPanicked]
           /\ sched' = IF a = "else"
                       THEN [sched EXCEPT !.lockq = Append(@, <<"caller", c>>)]
                       ELSE sched
    /\ UNCHANGED <<reuse, held>>
    /\ PartOnly

\* self.limiter.try_acquire(): DefaultLimiter::try_acquire on the shared
\* limiter, with Token::new counting the token in the shared in_flight.
\* Without a permit both calls return None, acquire_timeout (at
\* "timeout_pool") as well.
PoolTryAcquire(c) ==
    /\ pcall[c].pc \in {"pool", "timeout_pool"}
    /\ IF sched.permits > 0
       THEN /\ sched' = [sched EXCEPT !.permits = @ - 1, !.in_flight = @ + 1]
            /\ pcall' = [pcall EXCEPT ![c].pc = "minted"]
       ELSE /\ pcall' = [pcall EXCEPT ![c] = NoPCall]
            /\ UNCHANGED sched
    /\ UNCHANGED <<reuse, held>>
    /\ PartOnly

\* Token::for_partition on the token from the shared limiter, which the
\* call then returns.
ForPartition(c) ==
    /\ pcall[c].pc = "minted"
    /\ sched' = [sched EXCEPT !.in_flight_of[pcall[c].index] = @ + 1]
    /\ held' = [held EXCEPT ![pcall[c].index] = @ + 1]
    /\ pcall' = [pcall EXCEPT ![c] = NoPCall]
    /\ UNCHANGED reuse
    /\ PartOnly

\* self.scheduler.waiters.write().await completes (the lock is free and
\* the caller is first in line), then waiters.push_back((self.index, snd)).
\* The guard stays in scope over rx.await: the caller parks with the write
\* lock held.
WaitersWrite(c) ==
    /\ pcall[c].pc = "write"
    /\ sched.lock = 0
    /\ sched.lockq # <<>>
    /\ Head(sched.lockq) = <<"caller", c>>
    /\ sched' = [sched EXCEPT
           !.lock = c,
           !.lockq = Tail(@),
           !.waiters = Append(@, [index |-> pcall[c].index, rx |-> c])]
    /\ pcall' = [pcall EXCEPT ![c].pc = "parked"]
    /\ UNCHANGED <<reuse, held>>
    /\ PartOnly

\* The senders whose receiver is caller c's lose their receiver.
Closed(entry, c) == IF entry.rx = c THEN [entry EXCEPT !.rx = 0] ELSE entry

ClosedIn(bag, c) == LET F(e) == Closed(e, c) IN BagOfAll(F, bag)

\* The future of acquire_timeout is polled for the last time: rx has a
\* token (it goes through for_partition again and is returned), or the
\* timeout has elapsed or the caller cancelled; the future is dropped,
\* and with it the guard and rx or the caller's place in line for the lock.
AcquireTimeoutWakes(c) ==
    /\ pcall[c].pc \in {"write", "parked", "sent"}
    /\ IF pcall[c].pc = "sent"
       THEN /\ sched' = [sched EXCEPT
                   !.lock = 0,
                   !.in_flight_of[pcall[c].index] = @ + 1]
            /\ held' = [held EXCEPT ![pcall[c].index] = @ + 1]
            /\ pcall' = [pcall EXCEPT ![c] = NoPCall]
            /\ UNCHANGED reuse
       ELSE /\ sched' = IF pcall[c].pc = "parked"
                   THEN [sched EXCEPT
                       !.lock = 0,
                       !.waiters = [k \in DOMAIN @ |-> Closed(@[k], c)]]
                   ELSE [sched EXCEPT
                       !.lockq = SelectSeq(@, LAMBDA e : e # <<"caller", c>>)]
            /\ reuse' = [reuse EXCEPT !.some = ClosedIn(@, c),
                                      !.send = ClosedIn(@, c)]
            /\ pcall' = [pcall EXCEPT ![c] = NoPCall]
            /\ UNCHANGED held
    /\ PartOnly

\* Drop for Token, for a token of partition i: the partition's in_flight
\* goes down and Scheduler::reuse_permit spawns a task with the TokenInner.
DropPartToken(i) ==
    /\ held[i] > 0
    /\ held' = [held EXCEPT ![i] = @ - 1]
    /\ sched' = [sched EXCEPT !.in_flight_of[i] = @ - 1]
    /\ reuse' = [reuse EXCEPT !.spawned = @ + 1]
    /\ UNCHANGED pcall
    /\ PartOnly

\* A task of reuse_permit is polled first: it asks for the write lock.
ReuseWrite ==
    /\ reuse.spawned > 0
    /\ reuse' = [reuse EXCEPT !.spawned = @ - 1, !.queued = @ + 1]
    /\ sched' = [sched EXCEPT !.lockq = Append(@, <<"task", 0>>)]
    /\ UNCHANGED <<pcall, held>>
    /\ PartOnly

\* ReusePop with a drop(token_inner) that leaves the shared in_flight alone.
ReusePopUncounted ==
    /\ reuse.queued > 0
    /\ sched.lock = 0
    /\ Head(sched.lockq) = <<"task", 0>>
    /\ IF sched.waiters = <<>>
       THEN /\ sched' = [sched EXCEPT !.lockq = Tail(@),
                                      !.permits = @ + 1]
            /\ reuse' = [reuse EXCEPT !.queued = @ - 1]
       ELSE /\ sched' = [sched EXCEPT !.lockq = Tail(@),
                                      !.waiters = Tail(@)]
            /\ reuse' = [reuse EXCEPT
                   !.queued = @ - 1,
                   !.some = @ (+) SetToBag({Head(sched.waiters)})]
    /\ UNCHANGED <<pcall, held>>
    /\ PartOnly

\* self.waiters.write().await.pop_front() by the task first in line for the
\* lock, the lock given back at once; None => drop(token_inner): Drop for
\* TokenInner takes the token out of the shared in_flight and its permit
\* goes back to the semaphore.
ReusePop ==
    /\ reuse.queued > 0
    /\ sched.lock = 0
    /\ Head(sched.lockq) = <<"task", 0>>
    /\ IF sched.waiters = <<>>
       THEN /\ sched' = [sched EXCEPT !.lockq = Tail(@),
                                      !.in_flight = @ - 1,
                                      !.permits = @ + 1]
            /\ reuse' = [reuse EXCEPT !.queued = @ - 1]
       ELSE /\ sched' = [sched EXCEPT !.lockq = Tail(@),
                                      !.waiters = Tail(@)]
            /\ reuse' = [reuse EXCEPT
                   !.queued = @ - 1,
                   !.some = @ (+) SetToBag({Head(sched.waiters)})]
    /\ UNCHANGED <<pcall, held>>
    /\ PartOnly

\* Token::new_from_inner(token_inner).for_partition(..) for the partition
\* of the waiter w the task has popped.
ReuseForPartition(w) ==
    /\ BagIn(w, reuse.some)
    /\ reuse' = [reuse EXCEPT !.some = @ (-) SetToBag({w}),
                              !.send = @ (+) SetToBag({w})]
    /\ sched' = [sched EXCEPT !.in_flight_of[w.index] = @ + 1]
    /\ UNCHANGED <<pcall, held>>
    /\ PartOnly

\* waiter.send(token): Ok with the receiver alive; otherwise the token
\* comes back in the Err and is dropped there, as in DropPartToken.
ReuseSend(w) ==
    /\ BagIn(w, reuse.send)
    /\ IF w.rx # 0
       THEN /\ pcall' = [pcall EXCEPT ![w.rx].pc = "sent"]
            /\ reuse' = [reuse EXCEPT !.send = @ (-) SetToBag({w})]
            /\ UNCHANGED sched
       ELSE /\ sched' = [sched EXCEPT !.in_flight_of[w.index] = @ - 1]
            /\ reuse' = [reuse EXCEPT !.send = @ (-) SetToBag({w}),
                                      !.spawned = @ + 1]
            /\ UNCHANGED pcall
    /\ UNCHANGED held
    /\ PartOnly

\* The entries a waiter list can hold.
Waiters == [index : Partitions, rx : {0} \cup Callers]

PartInit == CtlInit

PartNext ==
    \/ \E total_limit \in 2..MaxTotalLimit, weights \in WeightLists,
          overflow_checks \in BOOLEAN :
           CreateStaticPartitions(total_limit, weights, overflow_checks)
    \/ \E c \in Callers, i \in Partitions : PartTryAcquire(c, i)
    \/ \E c \in Callers, i \in Partitions : PartAcquireTimeout(c, i)
    \/ \E c \in Callers : PoolTryAcquire(c)
    \/ \E c \in Callers : ForPartition(c)
    \/ \E c \in Callers : WaitersWrite(c)
    \/ \E c \in Callers : AcquireTimeoutWakes(c)
    \/ \E i \in Partitions : DropPartToken(i)
    \/ ReuseWrite
    \/ ReusePop
    \/ \E w \in Waiters : ReuseForPartition(w)
    \/ \E w \in Waiters : ReuseSend(w)

PartSpec == PartInit /\ [][PartNext]_vars

\* The runtime goes on polling the spawned reuse_permit tasks and the
\* callers that can go on; a timeout is not bound to elapse at any given
\* time and the application is not bound to call or to drop a token.
PartFairSpec ==
    /\ PartSpec
    /\ WF_vars(ReuseWrite)
    /\ WF_vars(ReusePop)
    /\ \A w \in [index : 1..2, rx : {0} \cup Callers] :
           WF_vars(ReuseForPartition(w)) /\ WF_vars(ReuseSend(w))
    /\ \A c \in Callers :
           /\ WF_vars(PoolTryAcquire(c))
           /\ WF_vars(ForPartition(c))
           /\ WF_vars(WaitersWrite(c))

\* No call is mid-way and no reuse_permit task is left.
PartAtRest ==
    /\ \A c \in Callers : pcall[c].pc \in {"idle", "panicked"}
    /\ reuse = NoReuse

\* The tokens the application holds, over all partitions.
LivePartTokens == SumSeq(held)

\* The tokens on their way: minted for a caller that has not returned yet,
\* or carried as a TokenInner by a reuse_permit task.
TokensInTransit ==
    Cardinality({c \in Callers : pcall[c].pc \in {"minted", "sent"}})
    + reuse.spawned + reuse.queued
    + BagCardinality(reuse.some) + BagCardinality(reuse.send)

SpareOf(i) ==
    LET left == PartitionLimit(i) - sched.in_flight_of[i]
                - (PartitionLimit(i) + 9) \div 10
    IN  IF left > 0 THEN left ELSE 0

TotalSpare == SumSeq([i \in Partitions |-> SpareOf(i)])

Admitted(i) ==
    sched.in_flight_of[i] < PartitionLimit(i) \/ TotalSpare > 0

C27_Step(c, i) ==
    /\ PartTryAcquire(c, i) =>
        /\ pcall'[c].pc = "pool" => Admitted(i)
        /\ ~Admitted(i) => /\ pcall'[c] = NoPCall
                           /\ UNCHANGED <<sched, held, reuse>>
    /\ (PoolTryAcquire(c) /\ pcall'[c].pc = "minted") =>
        sched'.in_flight = sched.in_flight + 1
    /\ (ForPartition(c) /\ pcall[c].index = i) =>
        /\ sched'.in_flight_of[i] = sched.in_flight_of[i] + 1
        /\ held'[i] = held[i] + 1

\* C27: try_acquire on partition i goes to the shared pool only if the
\* partition's in_flight is below ceil(total_limit * f_i) or the total spare
\* over all partitions is above 0; otherwise it returns None and changes
\* neither the shared pool nor any in-flight counter.  On success the shared
\* in_flight and the partition's in_flight both go up by 1.
C27_TryAcquireAdmission ==
    [][\A c \in Callers, i \in Partitions : C27_Step(c, i)]_vars

\* ------------------------------------------------------------------ C28
\* A reuse_permit task has a permit to hand on.
PermitWithScheduler == reuse # NoReuse

\* A step of a reuse_permit task.
ReuseStep ==
    \/ ReuseWrite
    \/ ReusePop
    \/ \E w \in Waiters : ReuseForPartition(w)
    \/ \E w \in Waiters : ReuseSend(w)

\* C28: when a partitioned token is dropped while a caller is parked in
\* acquire_timeout, the scheduler hands the permit to the parked caller
\* unless the caller's timeout elapses first: the caller does not stay
\* parked while a reuse_permit task has the permit.  When no caller is
\* parked or about to park, nothing keeps the reuse_permit tasks from
\* taking the permit back to the shared pool.
C28_HandOffToParked ==
    /\ \A c \in Callers :
          (pcall[c].pc = "parked" /\ PermitWithScheduler)
              ~> (pcall[c].pc # "parked")
    /\ []((PermitWithScheduler
             /\ \A c \in Callers : pcall[c].pc \notin {"write", "parked"})
          => ENABLED ReuseStep)

\* ------------------------------------------------------------------ C29
\* The entries of the waiter list whose caller is still waiting, oldest
\* first.
StillWaiting == SelectSeq(sched.waiters, LAMBDA w : w.rx # 0)

Oldest(c) == StillWaiting # <<>> /\ Head(StillWaiting).rx = c

NoStaleWaiter ==
    \A k \in DOMAIN sched.waiters :
        /\ sched.waiters[k].rx # 0
        /\ pcall[sched.waiters[k].rx].pc \in {"parked", "sent"}

\* All tokens dropped, all calls returned, all reuse_permit tasks finished.
AllReturned == PartAtRest /\ LivePartTokens = 0

\* The shared pool and every counter are back where they started.
PoolRestored ==
    /\ sched.permits = sched.limit
    /\ sched.in_flight = 0
    /\ \A i \in Partitions : sched.in_flight_of[i] = 0

\* C30: an acquire_timeout that times out or is cancelled while parked
\* leaves no entry of its own in the waiter list and takes no permit: once
\* all tokens are dropped and the background tasks have finished, available
\* equals the limit and every in-flight counter is 0.
C30_TimedOutWaiterLeavesNothing ==
    sched.built =>
        /\ NoStaleWaiter
        /\ AllReturned => PoolRestored

\* ------------------------------------------------------------------ C32
\* C32: in every reachable state the spare PartitionState::spare computes
\* for a partition is max(0, partition_limit - in_flight - buffer), and
\* computing it neither panics nor wraps around, also for a partition whose
\* in_flight is above its partition limit.
C32_SpareNeverUnderflows ==
    sched.built =>
        \A i \in Partitions :
            /\ ~PartitionSpare(i).panicked
            /\ PartitionSpare(i).spare = SpareOf(i)

\* ------------------------------------------------------------------ C33
\* The buffer of partition j as the specification has it:
\* ceil(partition_limit * 0.1).
BufferOf(j) == (PartitionLimit(j) + 9) \div 10

\* C33: whenever no call is mid-way and partition j's in_flight is below
\* its buffer, a try_acquire on partition j succeeds: it passes the
\* admission test and the shared pool has a permit for it, whatever the
\* other partitions hold.
C33_BufferReserved ==
    (sched.built /\ PartAtRest) =>
        \A j \in Partitions :
            sched.in_flight_of[j] < BufferOf(j) =>
                /\ Admission(j) = "pool"
                /\ sched.permits > 0

\* ------------------------------------------------------------------ C34
\* Caller c is inside acquire_timeout.
InAcquireTimeout(c) ==
    pcall[c].pc \in {"timeout_pool", "write", "parked", "sent"}

\* C34: acquire_timeout returns None only when its timeout has elapsed:
\* a call that has passed the admission test and finds no permit in the
\* shared pool waits for one, it does not return None at once.
C34_NoneOnlyAfterTimeout ==
    [][\A c \in Callers :
          (InAcquireTimeout(c) /\ pcall'[c] = NoPCall /\ held' = held)
              => (pcall[c].pc \in {"write", "parked"}
                     /\ AcquireTimeoutWakes(c))]_vars

\* ------------------------------------------------------------------ C35
\* The tokens of partition i that are live without being in the
\* application's hands: made by a reuse_permit task for a waiter and not
\* sent yet, or sent to a caller that has not taken it up yet.
HandedOver(i) ==
    BagCardinality([w \in {v \in BagToSet(reuse.send) : v.index = i}
                       |-> CopiesIn(w, reuse.send)])
    + Cardinality({c \in Callers :
                      pcall[c].pc = "sent" /\ pcall[c].index = i})

\* Each partition's in_flight counter counts its live tokens once each.
CountedOnce ==
    \A i \in Partitions :
        sched.in_flight_of[i] = held[i] + HandedOver(i)

MaxWeights == 3
WeightValues == -2 .. 2

AnyWeights ==
    UNION {[1..n -> WeightValues] : n \in 0..MaxWeights}

\* PartitionState::fraction as create_static_partitions computes it
Fraction(i) ==
    [num |-> sched.weights[i], den |-> SumSeq(sched.weights)]

\* 0 < f <= 1 for the quotient f.num / f.den; NaN and the infinities are
\* outside every interval.
InUnitInterval(f) ==
    /\ f.den # 0
    /\ f.num * f.den > 0
    /\ IF f.den > 0 THEN f.num <= f.den ELSE f.num >= f.den

\* the fractions add up to 1: their numerators add up to the denominator
FractionsSumToOne ==
    /\ SumSeq(sched.weights) # 0
    /\ SumSeq([i \in 1..Len(sched.weights) |-> Fraction(i).num])
           = Fraction(1).den

WeightNext ==
    \E total_limit \in 2..MaxTotalLimit, weights \in AnyWeights,
       overflow_checks \in BOOLEAN :
        CreateStaticPartitions(total_limit, weights, overflow_checks)

WeightSpec == PartInit /\ [][WeightNext]_vars

\* C40: create_static_partitions fails at construction when the weight
\* list is empty or any weight is zero or negative, and for every list it
\* accepts each fraction lies in (0, 1] and the fractions sum to 1.
C40_WeightsValidated ==
    sched.built =>
        /\ \A i \in Partitions : sched.weights[i] > 0
        /\ \A i \in Partitions : InUnitInterval(Fraction(i))
        /\ FractionsSumToOne

\* ------------------------------------------------------------------ C31
\* RejectionDelay over a DefaultLimiter with a Fixed(1) limit, as in the
\* source's tests.  Time is counted in the ticks of the limiter's timers;
\* every call through the wrapper carries the time that has passed since
\* it began.
Delays == 0..MaxDelay
MaxElapsed == MaxDuration + MaxDelay + 1

RdOnly == UNCHANGED <<ctlVars, winVars, aggVars, partVars, au, gr>>

RdOut == [pc |-> "out", op |-> "none", d |-> 0, elapsed |-> 0, timer |-> 0,
          got |-> "none", slept |-> FALSE, asked |-> NoOutcome]

\* RejectionDelay::new
RejectionDelayNew(delay) ==
    /\ ~rd.built
    /\ rd' = [built |-> TRUE, delay |-> delay, of |-> [c \in Callers |-> RdOut]]
    /\ UNCHANGED gateVars
    /\ RdOnly

\* try_acquire: the inner try_acquire is called
RdTryAcquire(c) ==
    /\ rd.built
    /\ rd.of[c].pc = "out"
    /\ TryAcquire(c)
    /\ rd' = [rd EXCEPT !.of[c] = [RdOut EXCEPT !.pc = "inner", !.op = "try"]]
    /\ RdOnly

\* acquire_timeout(duration): the inner acquire_timeout is called with the
\* same duration
RdAcquireTimeout(c, d) ==
    /\ rd.built
    /\ rd.of[c].pc = "out"
    /\ AcquireTimeout(c, d)
    /\ rd' = [rd EXCEPT !.of[c] = [RdOut EXCEPT !.pc = "inner",
                                                !.op = "timeout", !.d = d]]
    /\ RdOnly

\* Time passes: the inner limiter's timers and the wrapper's sleeps get one
\* tick closer to their deadlines, and every call in progress gets older.
RdTick ==
    /\ rd.built
    /\ \E c \in Callers : rd.of[c].pc # "out"
    /\ \A c \in Callers : rd.of[c].pc # "out" => rd.of[c].elapsed < MaxElapsed
    /\ loc' = [c \in Callers |->
                 IF pc[c] \in {"waiting", "granted"} /\ loc[c].timer > 0
                 THEN [loc[c] EXCEPT !.timer = @ - 1] ELSE loc[c]]
    /\ rd' = [rd EXCEPT !.of = [c \in Callers |->
                 IF rd.of[c].pc = "out" THEN rd.of[c]
                 ELSE [rd.of[c] EXCEPT
                          !.elapsed = @ + 1,
                          !.timer = IF @ > 0 THEN @ - 1 ELSE 0]]]
    /\ UNCHANGED <<algo, algo_limit, limit, permits, waiters, in_flight, pc, tasks>>
    /\ RdOnly

\* The inner limiter returned Some(token): the wrapper returns it.
RdSome(c) ==
    /\ rd.built
    /\ rd.of[c].pc = "inner"
    /\ MintToken(c)
    /\ rd' = [rd EXCEPT !.of[c].pc = "out", !.of[c].got = "Some"]
    /\ RdOnly

\* A wrapper that lets a rejected caller go at once.
SleepNot(c) ==
    rd' = [rd EXCEPT !.of[c].pc = "sleep", !.of[c].slept = TRUE,
                     !.of[c].timer = 0]

\* tokio::time::sleep(self.delay)
Sleep(c) ==
    rd' = [rd EXCEPT !.of[c].pc = "sleep", !.of[c].slept = TRUE,
                     !.of[c].timer = rd.delay]

\* The inner limiter returned None: the wrapper goes to sleep.
RdNone(c) ==
    /\ rd.built
    /\ rd.of[c].pc = "inner"
    /\ Rejected(c)
    /\ Sleep(c)
    /\ RdOnly

\* The sleep is over: the wrapper returns None.
RdWake(c) ==
    /\ rd.built
    /\ rd.of[c].pc = "sleep"
    /\ rd.of[c].timer = 0
    /\ rd' = [rd EXCEPT !.of[c].pc = "out", !.of[c].got = "None"]
    /\ UNCHANGED gateVars
    /\ RdOnly

\* release(token, outcome): the inner release is called with both.
RdRelease(c, outcome) ==
    /\ rd.built
    /\ rd.of[c].pc = "out"
    /\ Release(c, outcome)
    /\ rd' = [rd EXCEPT !.of[c].asked = outcome]
    /\ RdOnly

\* A step of the inner limiter that the wrapper has no part in.
RdSame == UNCHANGED rd /\ RdOnly /\ rd.built

RdInit == CtlInit

RdNext ==
    \/ \E delay \in Delays : RejectionDelayNew(delay)
    \/ \E c \in Callers : RdTryAcquire(c)
    \/ \E c \in Callers, d \in Durations : RdAcquireTimeout(c, d)
    \/ RdTick
    \/ \E c \in Callers : RdSome(c)
    \/ \E c \in Callers : RdNone(c)
    \/ \E c \in Callers : RdWake(c)
    \/ \E c \in Callers, o \in Outcomes \cup {NoOutcome} : RdRelease(c, o)
    \/ \E c \in Callers : AcquireGranted(c) /\ RdSame
    \/ \E c \in Callers : AcquireElapsed(c) /\ RdSame
    \/ \E c \in Callers : AcquireTimedOut(c) /\ RdSame
    \/ \E c \in Callers : Update(c) /\ RdSame
    \/ \E c \in Callers : Swap(c) /\ RdSame
    \/ \E c \in Callers : Reconcile(c) /\ RdSame
    \/ \E c \in Callers : DropToken(c) /\ RdSame
    \/ \E c \in Callers : DropPermit(c) /\ RdSame

RdSpec == RdInit /\ [][RdNext]_vars

\* A call through the wrapper that has returned.
RdReturned(c, op, got) ==
    /\ rd.built
    /\ rd.of[c].pc = "out"
    /\ rd.of[c].op = op
    /\ rd.of[c].got = got

AllSettled ==
    /\ Quiescent
    /\ \A t \in TaskIds : tasks[t].st = "free"

\* C36: under concurrent releases, for every interleaving of controller
\* updates and limit swaps, once all releases have returned and all shrink
\* tasks have finished the stored limit equals the controller's limit() and
\* the permits, available and held by live tokens, add up to that limit.
C36_LimitSettles ==
    AllSettled =>
        /\ limit = algo_limit
        /\ permits + LiveTokens = limit

\* ------------------------------------------------------------------ C37
\* Aimd::update called by the callers concurrently on one controller.
\* AtomicUsize::fetch_update is a loop: it loads the value, computes the
\* closure on it, and stores the result with a compare-and-exchange that
\* fails, and hands back the current value, when the value has changed.
AuOnly == UNCHANGED <<gateVars, ctlVars, winVars, aggVars, partVars, rd, gr>>

AuSamples ==
    {[in_flight |-> 1, outcome |-> "Success"],
     [in_flight |-> 2, outcome |-> "Success"],
     [in_flight |-> 2, outcome |-> "Overload"]}

AuConfigs == {a \in Algos : a.kind = "Aimd"}

AuIdle == [pc |-> "idle", sample |-> NoSample, prev |-> 0, ret |-> 0,
           seen |-> {}]

\* Aimd::new_with_initial_limit and the builder methods
AuNew(a) ==
    /\ ~au.built
    /\ au' = [built |-> TRUE, cfg |-> a, limit |-> a.initial,
              of |-> [c \in Callers |-> AuIdle], samples |-> <<>>]
    /\ AuOnly

\* update(sample) is called
AuUpdate(c, sample) ==
    /\ au.built
    /\ au.of[c].pc = "idle"
    /\ Len(au.samples) < MaxCalls
    /\ au' = [au EXCEPT !.of[c] = [AuIdle EXCEPT !.pc = "fetch",
                                                 !.sample = sample],
                        !.samples = Append(@, sample)]
    /\ AuOnly

\* fetch_update: the first load
AuFetchLoad(c) ==
    /\ au.built
    /\ au.of[c].pc = "fetch"
    /\ au' = [au EXCEPT !.of[c].pc = "cas", !.of[c].prev = au.limit]
    /\ AuOnly

\* The calls that have made their update and not yet returned see every
\* value the limit takes from then on.
Seeing(c, l) ==
    [d \in Callers |->
        IF d = c
        THEN [au.of[d] EXCEPT !.pc = "load", !.seen = {l}]
        ELSE IF au.of[d].pc = "load"
             THEN [au.of[d] EXCEPT !.seen = @ \cup {l}]
             ELSE au.of[d]]

\* An update that stores its result whatever the limit has become.
AuStore(c) ==
    /\ au.built
    /\ au.of[c].pc = "cas"
    /\ LET l == AimdClosure(au.cfg, au.of[c].prev, au.of[c].sample.in_flight,
                            au.of[c].sample.outcome)
       IN  au' = [au EXCEPT !.limit = l, !.of = Seeing(c, l)]
    /\ AuOnly

\* fetch_update: the closure on the loaded value and the
\* compare-and-exchange; on failure the loop goes round with the value found
AuCas(c) ==
    /\ au.built
    /\ au.of[c].pc = "cas"
    /\ IF au.limit = au.of[c].prev
       THEN LET l == AimdClosure(au.cfg, au.of[c].prev,
                                 au.of[c].sample.in_flight,
                                 au.of[c].sample.outcome)
            IN  au' = [au EXCEPT !.limit = l, !.of = Seeing(c, l)]
       ELSE au' = [au EXCEPT !.of[c].prev = au.limit]
    /\ AuOnly

\* self.limit.load(Ordering::SeqCst): the value update returns
AuLoad(c) ==
    /\ au.built
    /\ au.of[c].pc = "load"
    /\ au' = [au EXCEPT !.of[c].pc = "idle", !.of[c].ret = au.limit]
    /\ AuOnly

AuInit == CtlInit

AuNext ==
    \/ \E a \in AuConfigs : AuNew(a)
    \/ \E c \in Callers, sample \in AuSamples : AuUpdate(c, sample)
    \/ \E c \in Callers : AuFetchLoad(c)
    \/ \E c \in Callers : AuCas(c)
    \/ \E c \in Callers : AuLoad(c)

AuSpec == AuInit /\ [][AuNext]_vars

\* q without its i-th element
Without(q, i) == SubSeq(q, 1, i - 1) \o SubSeq(q, i + 1, Len(q))

\* The limits that the samples of q, applied one after the other in any
\* order, lead to from limit l.
RECURSIVE SequentialResults(_, _)
SequentialResults(l, q) ==
    IF q = <<>> THEN {l}
    ELSE UNION {SequentialResults(
                    AimdClosure(au.cfg, l, q[i].in_flight, q[i].outcome),
                    Without(q, i)) : i \in 1..Len(q)}

AuReturned(c) ==
    au.built /\ au.of[c].pc = "idle" /\ au.of[c].sample # NoSample

\* C37: concurrent update calls on one Aimd controller lose no update: when
\* every call has returned the limit is the result of applying the calls'
\* samples in some sequential order, and the value a call returned is a
\* limit the controller held at or after that call's own update.
C37_NoLostUpdate ==
    /\ (au.built /\ \A c \in Callers : au.of[c].pc = "idle")
          => au.limit \in SequentialResults(au.cfg.initial, au.samples)
    /\ \A c \in Callers : AuReturned(c) => au.of[c].ret \in au.of[c].seen

\* Both callers have returned, after MaxCalls updates in all: one made its
\* update on a limit another update had left, the other returned a limit
\* that was stored after its own update, while it had yet to read.
C37_Witness ==
    \E c \in Callers, d \in Callers :
        /\ c # d
        /\ AuReturned(c)
        /\ AuReturned(d)
        /\ Len(au.samples) = MaxCalls
        /\ au.of[c].prev # au.cfg.initial
        /\ Cardinality(au.of[d].seen) > 1
        /\ au.of[d].ret = au.limit

\* ------------------------------------------------------------------ C38
\* A Vegas controller updated with samples of up to 80 requests in flight
\* and latencies of up to 5 microseconds.  The controller is updated while
\* its limit is at most 10 or is 100: there log10(limit).max(1) is a whole
\* number.  For these samples and limits the f64 values the source computes
\* (the queue estimate, the utilisation, 0.9 * limit) fall on the same side
\* of every threshold as the exact quotients.
VegasLimits == (1..10) \cup {100}
VegasInitials == {1, 5, 10, 100}
VegasSamples ==
    [latency : {MIN_SAMPLE_LATENCY - 1, MIN_SAMPLE_LATENCY,
                3 * MIN_SAMPLE_LATENCY, 5 * MIN_SAMPLE_LATENCY},
     in_flight : {0, 5, 8, 10, 80},
     outcome : Outcomes]

\* The owner calls update(sample) on the Vegas controller.
VegasCtlUpdate(sample) ==
    /\ ctl.kind = "Vegas"
    /\ ~(call.op # "update" /\ call.panicked)
    /\ ctl.limit \in VegasLimits
    /\ LET r == VegasUpdate(ctl, sample)
       IN  /\ ctl' = r.ctl
           /\ call' = [op |-> "update", sample |-> sample,
                       limit_before |-> ctl.limit, ret |-> r.ret,
                       panicked |-> r.panicked]
    /\ UNCHANGED <<gateVars, restVars, winVars>>

VegasNext ==
    \/ \E initial \in VegasInitials : NewWithInitialLimit("Vegas", initial)
    \/ \E max \in {10} : WithMaxLimit(max)
    \/ \E sample \in VegasSamples : VegasCtlUpdate(sample)

VegasSpec == CtlInit /\ [][VegasNext]_vars

\* The rules of the claim, on exact quotients: queued is
\* in_flight * (latency - base) / latency, and the thresholds are
\* alpha = 3 * max(1, log10(limit)) and beta = 6 * max(1, log10(limit)).
WholeLog10(l) == IF l = 100 THEN 2 ELSE 1

RuleLimit(l, base, sample) ==
    LET num  == sample.in_flight * (sample.latency - base)
        den  == sample.latency
        step == WholeLog10(l)
    IN  IF sample.outcome = "Overload" THEN (9 * l) \div 10
        ELSE IF num > 6 * WholeLog10(l) * den THEN l - step
        ELSE IF num < 3 * WholeLog10(l) * den /\ 10 * sample.in_flight >= 8 * l
        THEN l + step
        ELSE l

C38_Step ==
    /\ call'.op = "update"
    /\ ctl.kind = "Vegas"
    /\ call'.sample.latency >= MIN_SAMPLE_LATENCY
    /\ call'.sample.latency >= ctl.base_latency
    => LET l == RuleLimit(ctl.limit, ctl.base_latency, call'.sample)
           clamped == IF l < ctl.min_limit THEN ctl.min_limit
                      ELSE IF l > ctl.max_limit THEN ctl.max_limit ELSE l
       IN  /\ ~call'.panicked
           /\ ctl'.limit = clamped
           /\ call'.ret = clamped

\* C38: for a Vegas update with latency >= 1 microsecond and not below
\* base_latency the limit changes by the first rule that matches: Overload
\* -> floor(0.9 * limit); else queued > beta(limit) -> limit - step; else
\* queued < alpha(limit) and in_flight / limit >= 0.8 -> limit + step; else
\* unchanged; the result is clamped to [min_limit, max_limit].
C38_VegasRules == [][C38_Step]_vars

\* An update has just lowered the limit from 100 by the step 2, because of
\* queueing: a successful sample at five times the base latency.
C38_Witness ==
    /\ ctl.kind = "Vegas"
    /\ call.op = "update"
    /\ call.sample.outcome = "Success"
    /\ call.sample.latency = 5 * MIN_SAMPLE_LATENCY
    /\ ctl.base_latency = MIN_SAMPLE_LATENCY
    /\ call.limit_before = 100
    /\ ctl.limit = 98

\* ------------------------------------------------------------------ C39
\* The run of Gradient's test: a limiter over Gradient, two batches of
\* tokens, each batch acquired together and released one token after the
\* other with the batch's latency; the sample of a release carries the
\* tokens in flight at that moment.  The test's latencies of 25 ms and
\* 250 ms are taken a thousand times shorter, 25 and 250 microseconds, to
\* keep the products of the update within the model's integers: the update
\* uses latencies through their quotients only, above the 1 microsecond
\* floor.
MaxBatches == 2
GrInitials == {5, 10}
GrBatchSizes == {5, 9, 10}
GrLatencies == {25 * MIN_SAMPLE_LATENCY, 250 * MIN_SAMPLE_LATENCY}

GrOnly == UNCHANGED <<gateVars, winVars, aggVars, partVars, rd, au>>

\* n calls of try_acquire, every one with a token: the limiter has at
\* least n permits, all of them free.
GrAcquire(n, latency) ==
    /\ ctl.kind = "Gradient"
    /\ ~call.panicked
    /\ gr.in_flight = 0
    /\ gr.batch < MaxBatches
    /\ n <= ctl.limit
    /\ gr' = [gr EXCEPT !.batch = @ + 1, !.n = n, !.latency = latency,
                        !.in_flight = n,
                        !.first = IF gr.batch = 0 THEN <<n, latency>> ELSE @,
                        !.higher = IF gr.batch = 1 THEN ctl.limit ELSE @]
    /\ UNCHANGED ctlVars
    /\ GrOnly

\* release(token, Some(Success)) of the next token of the batch: the sample
\* is taken with the token still counted, the controller is updated, the
\* token is dropped.
GrRelease ==
    /\ ctl.kind = "Gradient"
    /\ ~call.panicked
    /\ gr.in_flight > 0
    /\ LET sample == [latency |-> gr.latency, in_flight |-> gr.in_flight,
                      outcome |-> "Success"]
           r == GradientUpdate(ctl, sample)
       IN  /\ ctl' = r.ctl
           /\ call' = [op |-> "update", sample |-> sample,
                       limit_before |-> ctl.limit, ret |-> r.ret,
                       panicked |-> r.panicked]
    /\ gr' = [gr EXCEPT !.in_flight = @ - 1]
    /\ GrOnly

GrNew(initial) ==
    /\ NewWithInitialLimit("Gradient", initial)
    /\ UNCHANGED gr

GrNext ==
    \/ \E initial \in GrInitials : GrNew(initial)
    \/ \E n \in GrBatchSizes, latency \in GrLatencies : GrAcquire(n, latency)
    \/ GrRelease

GrSpec == CtlInit /\ [][GrNext]_vars

\* The first batch was ten tokens at the short latency, from limit 10.
GrSteadyFirst ==
    /\ ctl.kind = "Gradient"
    /\ gr.batch >= 1
    /\ gr.first = <<10, 25 * MIN_SAMPLE_LATENCY>>

\* All tokens of batch b have been released.
GrBatchDone(b) ==
    /\ gr.batch = b
    /\ gr.in_flight = 0
    /\ ~call.panicked

\* The f64 limit goes up by 0.2 * 4 on a sample at steady latency with more
\* than 0.8 of the limit in flight, and down on a sample whose latency is
\* above twice the smoothed long-window latency.
C39_Step ==
    /\ call'.op = "update"
    /\ ctl.kind = "Gradient"
    /\ gr'.in_flight = gr.in_flight - 1
    /\ ~call'.panicked
    => LET long == ExpSmoothedSample(ctl.long_window_latency,
                                     call'.sample.latency).value
       IN  /\ (/\ 2 * long >= call'.sample.latency
               /\ 10000 * call'.sample.in_flight > 8 * ctl.limit_f)
                  => ctl'.limit_f = ctl.limit_f + 800
           /\ (/\ call'.sample.latency > 2 * long
               /\ ctl.limit_f > 1000 * ctl.min_limit)
                  => ctl'.limit_f < ctl.limit_f

\* C39: Gradient raises the limit at steady latency with more than 0.8 of
\* the limit in flight, and lowers it once the sample latency is above the
\* tolerance times the smoothed long-window latency: from limit 10, ten
\* tokens released at the short latency leave limit() above 10, and ten
\* tokens then released at ten times that latency leave limit() below the
\* raised value.
C39_GradientRun ==
    /\ [][C39_Step]_vars
    /\ []((GrSteadyFirst /\ GrBatchDone(1) /\ call.op = "update")
             => ctl.limit > 10)
    /\ []((/\ GrSteadyFirst
           /\ GrBatchDone(2)
           /\ gr.n = 10
           /\ gr.latency = 250 * MIN_SAMPLE_LATENCY)
             => ctl.limit < gr.higher)

\* Both batches of the test are through: the limit went from 10 up to 11
\* and then down to 4.
C39_Witness ==
    /\ GrSteadyFirst
    /\ GrBatchDone(2)
    /\ gr.n = 10
    /\ gr.latency = 250 * MIN_SAMPLE_LATENCY
    /\ gr.higher = 11
    /\ ctl.limit = 4

====
